---- MODULE Spec2Model ----
(***************************************************************************)
(* evidence-gate: the three-gate comparison engine (compareConditions)     *)
(* and the statistical functions it is built from.                         *)
(*                                                                         *)
(* Numbers.  The source computes in IEEE-754 doubles.  Here a finite real  *)
(* is a fixed-point integer: the real x is the integer x * SCALE, with     *)
(* SCALE = 10^6, rounded to the nearest.  Every formula is evaluated in the *)
(* order of the source; products and quotients go through Mul and Div so   *)
(* that no intermediate value leaves the 32-bit range of TLC's integers.   *)
(* Where the source can produce NaN or +-Infinity (a division by zero in   *)
(* welchTTest) the value is an extended number <<tag, v>> with tag one of  *)
(* "fin", "nan", "pinf", "ninf".                                           *)
(***************************************************************************)
EXTENDS Integers, Sequences, FiniteSets, TLC

\* ------------------------------------------------------------------------
\* Fixed-point arithmetic
\* ------------------------------------------------------------------------
KILO == 10 * 100
SCALE == KILO * KILO

Abs(x) == IF x < 0 THEN -x ELSE x
Sgn(x) == IF x < 0 THEN -1 ELSE IF x > 0 THEN 1 ELSE 0
Min2(a, b) == IF a < b THEN a ELSE b
Max2(a, b) == IF a > b THEN a ELSE b

\* the fixed-point image of the integer n, and of the decimal n / 10^k
Fx(n) == n * SCALE

\* a * b / SCALE on magnitudes, rounded to nearest; split so that no partial
\* product overflows
MulU(a, b) ==
  LET a1 == a \div KILO
      a0 == a % KILO
      b1 == b \div KILO
      b0 == b % KILO
      low == (a0 * b0 + KILO \div 2) \div KILO
  IN  a1 * b1 + ((a1 * b0 + a0 * b1 + low + KILO \div 2) \div KILO)

Mul(a, b) == Sgn(a) * Sgn(b) * MulU(Abs(a), Abs(b))

\* long division: k more digits in base B of the quotient q with remainder r,
\* then rounded to nearest
RECURSIVE DivDigits(_, _, _, _, _)
DivDigits(q, r, b, k, B) ==
  IF k = 0 THEN (IF 2 * r >= b THEN q + 1 ELSE q)
  ELSE DivDigits(q * B + ((r * B) \div b), (r * B) % b, b, k - 1, B)

\* a * SCALE / b on magnitudes (b > 0)
RECURSIVE DivU(_, _)
DivU(a, b) ==
  IF b >= 200 * SCALE THEN DivU(a \div 16, b \div 16)
  ELSE IF b < 2 * SCALE THEN DivDigits(a \div b, a % b, b, 2, KILO)
  ELSE IF b < 20 * SCALE THEN DivDigits(a \div b, a % b, b, 3, 100)
  ELSE DivDigits(a \div b, a % b, b, 6, 10)

\* a / b for b # 0
Div(a, b) == Sgn(a) * Sgn(b) * DivU(Abs(a), Abs(b))

\* Math.sqrt on a >= 0: Newton's iteration from above, to the fixed point
RECURSIVE SqrtIter(_, _)
SqrtIter(a, x) ==
  LET Improve(y) == IF y >= x THEN x ELSE SqrtIter(a, y)
  IN  Improve((x + DivU(a, x)) \div 2)

Sqrt(a) == IF a <= 0 THEN 0 ELSE SqrtIter(a, Max2(a, SCALE))

\* ln 2 and pi
LN2 == 693147
PI == 3141593

\* sum of the Taylor series of e^r, |r| <= ln 2: term is r^k / k!
RECURSIVE ExpSeries(_, _, _)
ExpSeries(r, term, k) ==
  IF term = 0 THEN 0
  ELSE term + ExpSeries(r, Div(Mul(term, r), Fx(k)), k + 1)

RECURSIVE Pow2Mul(_, _)
Pow2Mul(x, k) ==
  IF k = 0 THEN x
  ELSE IF k > 0 THEN Pow2Mul(2 * x, k - 1)
  ELSE Pow2Mul(x \div 2, k + 1)

\* Math.exp: e^x = 2^k * e^r with x = k ln 2 + r; below e^-15 the value is 0
Exp(x) ==
  IF x < -15 * SCALE THEN 0
  ELSE LET k == IF x >= 0 THEN x \div LN2 ELSE -((-x) \div LN2) - 1
           r == x - k * LN2
       IN  Pow2Mul(ExpSeries(r, SCALE, 1), k)

\* 2 * atanh(y) = 2 (y + y^3/3 + y^5/5 + ...), |y| <= 1/3
RECURSIVE AtanhSeries(_, _, _)
AtanhSeries(y2, term, k) ==
  IF term = 0 THEN 0
  ELSE (term \div k) + AtanhSeries(y2, Mul(term, y2), k + 2)

\* Math.log on x > 0: x = m * 2^k with m in [1/2 sqrt 2, sqrt 2)
RECURSIVE LnNorm(_, _)
LnNorm(m, k) ==
  IF m >= 1414214 THEN LnNorm(m \div 2, k + 1)
  ELSE IF m < 707107 THEN LnNorm(m * 2, k - 1)
  ELSE LET Series(y) == k * LN2 + 2 * AtanhSeries(Mul(y, y), y, 1)
       IN  Series(Div(m - SCALE, m + SCALE))

Ln(x) == LnNorm(x, 0)

\* Math.sin on 0 <= x <= pi: x - x^3/3! + x^5/5! - ...
RECURSIVE SinSeries(_, _, _)
SinSeries(x2, term, k) ==
  IF term = 0 THEN 0
  ELSE term + SinSeries(x2, -(Mul(term, x2) \div ((k + 1) * (k + 2))), k + 2)

Sin(x) == SinSeries(Mul(x, x), x, 1)

\* ------------------------------------------------------------------------
\* Special functions (welch-t-test.ts; normality.ts and mann-whitney.ts carry
\* their own copies of erf, normalCDF and normalQuantile, character for
\* character the same)
\* ------------------------------------------------------------------------

\* the image of the source's 1e-10 (the eps of betaCF, and the "is it zero"
\* guards on a density, a standard deviation and a sum of squares): the
\* resolution of the arithmetic, as 1e-10 is a few orders above the
\* resolution of a double
TINY == 3

\* the image of +Infinity where a function returns it as a value
HUGE == 2147 * SCALE

\* Abramowitz-Stegun 7.1.26
erf(x0) ==
  LET sign == IF x0 >= 0 THEN 1 ELSE -1
      a1 == 254830
      a2 == -284497
      a3 == 1421414
      a4 == -1453152
      a5 == 1061405
      p == 327591
      x == Abs(x0)
      Poly(t) == Mul(Mul(Mul(Mul(Mul(a5, t) + a4, t) + a3, t) + a2, t) + a1, t)
  IN  sign * (SCALE - Mul(Poly(Div(SCALE, SCALE + Mul(p, x))), Exp(-Mul(x, x))))

SQRT2 == Sqrt(Fx(2))

normalCDF(x) == (SCALE + erf(Div(x, SQRT2))) \div 2

RECURSIVE normalQuantile(_)
normalQuantile(p) ==
  IF p <= 0 THEN -HUGE
  ELSE IF p >= SCALE THEN HUGE
  ELSE IF p > SCALE \div 2 THEN -normalQuantile(SCALE - p)
  ELSE LET c0 == 2515517
           c1 == 802853
           c2 == 10328
           d1 == 1432788
           d2 == 189269
           d3 == 1308
           Rational(t, tt) ==
             t - Div(c0 + Mul(c1, t) + Mul(c2, tt),
                     SCALE + Mul(d1, t) + Mul(d2, tt) + Mul(d3, Mul(tt, t)))
           Approximation(t) == -Rational(t, Mul(t, t))
       IN  Approximation(Sqrt(-2 * Ln(p)))

\* the Lanczos coefficients (g = 7), coefficients[1..8] of the source
LanczosCoefficients ==
  <<676520368, -1259139217, 771323429, -176615029, 12507343, -138571, 10, 0>>

RECURSIVE LanczosSum(_, _)
LanczosSum(x, i) ==
  IF i > 8 THEN 0
  ELSE Div(LanczosCoefficients[i], x + Fx(i)) + LanczosSum(x, i + 1)

RECURSIVE logGamma(_)
logGamma(x0) ==
  IF x0 < SCALE \div 2
  THEN Ln(Div(PI, Sin(Mul(PI, x0)))) - logGamma(SCALE - x0)
  ELSE LET x == x0 - SCALE
           a == SCALE + LanczosSum(x, 1)
           t == x + Fx(7) + SCALE \div 2
       IN  (Ln(2 * PI) \div 2) + Mul(x + SCALE \div 2, Ln(t)) - t + Ln(a)

\* the |d| < eps guards of betaCF
Guard(d) == IF Abs(d) < TINY THEN TINY ELSE d

\* one pass of the modified Lentz loop of betaCF: state <<c, d, h>>, step m
RECURSIVE betaCFLoop(_, _, _, _, _, _, _)
betaCFLoop(x, a, b, c, d, h, m) ==
  IF m > 100 THEN h
  ELSE LET qab == a + b
           qap == a + SCALE
           qam == a - SCALE
           m2 == Fx(2 * m)
           \* d = 1 + aa * d, guarded, then d = 1 / d; c = 1 + aa / c, guarded
           NewD(aa, d0) == Div(SCALE, Guard(SCALE + Mul(aa, d0)))
           NewC(aa, c0) == Guard(SCALE + Div(aa, c0))
           Close(c2, d4, del, h2) ==
             IF Abs(del - SCALE) < TINY THEN h2
             ELSE betaCFLoop(x, a, b, c2, d4, h2, m + 1)
           OddDel(c2, d4, del, h1) == Close(c2, d4, del, Mul(h1, del))
           OddCD(c2, d4, h1) == OddDel(c2, d4, Mul(d4, c2), h1)
           Odd(aa2, c1, d2, h1) == OddCD(NewC(aa2, c1), NewD(aa2, d2), h1)
           EvenCD(c1, d2) ==
             Odd(-Div(Mul(Mul(Div(a + Fx(m), a + m2), qab + Fx(m)), x), qap + m2),
                 c1, d2, Mul(h, Mul(d2, c1)))
           Even(aa1) == EvenCD(NewC(aa1, c), NewD(aa1, d))
       IN  Even(Div(Mul(m * Div(b - Fx(m), qam + m2), x), a + m2))

betaCF(x, a, b) ==
  LET d0 == Guard(SCALE - Div(Mul(a + b, x), a + SCALE))
      d == Div(SCALE, d0)
  IN  betaCFLoop(x, a, b, SCALE, d, d, 1)

incompleteBeta(x, a, b) ==
  IF x = 0 THEN 0
  ELSE IF x = SCALE THEN SCALE
  ELSE LET direct == x < Div(a + SCALE, a + b + Fx(2))
           Continued(bt, cf) ==
             IF direct THEN Div(Mul(bt, cf), a) ELSE SCALE - Div(Mul(bt, cf), b)
       IN  Continued(Exp(logGamma(a + b) - logGamma(a) - logGamma(b)
                         + Mul(a, Ln(x)) + Mul(b, Ln(SCALE - x))),
                     IF direct THEN betaCF(x, a, b) ELSE betaCF(SCALE - x, b, a))

\* the upper tail whatever the sign of t
tDistCDFUpperTail(t, df) ==
  IF df > Fx(200) THEN normalCDF(t)
  ELSE LET OfBeta(beta) == SCALE - beta \div 2
       IN  OfBeta(incompleteBeta(Div(df, df + Mul(t, t)), df \div 2, SCALE \div 2))

\* tDistCDF on finite t and df
tDistCDF(t, df) ==
  IF df > Fx(200) THEN normalCDF(t)
  ELSE LET OfBeta(beta) == IF t >= 0 THEN SCALE - beta \div 2 ELSE beta \div 2
       IN  OfBeta(incompleteBeta(Div(df, df + Mul(t, t)), df \div 2, SCALE \div 2))

tDistPDF(t, df) ==
  LET coef == Exp(logGamma((df + SCALE) \div 2) - logGamma(df \div 2)
                  - (Ln(Mul(df, PI)) \div 2))
  IN  Mul(coef, Exp(Mul(-((df + SCALE) \div 2), Ln(SCALE + Div(Mul(t, t), df)))))

\* the Newton-Raphson loop of tDistQuantile, i iterations done
RECURSIVE tDistQuantileLoop(_, _, _, _)
tDistQuantileLoop(p, df, x, i) ==
  IF i >= 10 THEN x
  ELSE LET Newton(cdf, pdf) ==
             IF pdf < TINY THEN x
             ELSE tDistQuantileLoop(p, df, x - Div(cdf - p, pdf), i + 1)
       IN  Newton(tDistCDF(x, df), tDistPDF(x, df))

\* tDistQuantile on finite df
tDistQuantile(p, df) ==
  IF df > Fx(200) THEN normalQuantile(p)
  ELSE tDistQuantileLoop(p, df, normalQuantile(p), 0)

\* ------------------------------------------------------------------------
\* Extended numbers: what a double holds when it may be NaN or +-Infinity
\* ------------------------------------------------------------------------
Fin(v) == <<"fin", v>>
NaN == <<"nan", 0>>
PosInf == <<"pinf", 0>>
NegInf == <<"ninf", 0>>

IsFin(e) == e[1] = "fin"
IsNaN(e) == e[1] = "nan"
Val(e) == e[2]

\* a / b in IEEE-754 for finite a and b: x/0 is +-Infinity, 0/0 is NaN
XDiv(a, b) ==
  IF b # 0 THEN Fin(Div(a, b))
  ELSE IF a = 0 THEN NaN
  ELSE IF a > 0 THEN PosInf ELSE NegInf

\* Math.abs
XAbs(e) == IF IsFin(e) THEN Fin(Abs(Val(e))) ELSE IF IsNaN(e) THEN NaN ELSE PosInf

\* e < c for a finite c: every comparison with NaN is false
XLess(e, c) ==
  IF IsFin(e) THEN Val(e) < c
  ELSE e = NegInf

\* ------------------------------------------------------------------------
\* Descriptive statistics (simple-statistics: mean, sampleVariance,
\* sampleStandardDeviation) on a sequence of integers
\* ------------------------------------------------------------------------
RECURSIVE SumSeq(_)
SumSeq(s) == IF s = <<>> THEN 0 ELSE Head(s) + SumSeq(Tail(s))

FxSeq(s) == [i \in 1..Len(s) |-> Fx(s[i])]

\* ss.mean of a non-empty sample of fixed-point values
ssMean(xs) == Div(SumSeq(xs), Fx(Len(xs)))

\* sum of squared deviations from m
RECURSIVE SumSquaredDev(_, _)
SumSquaredDev(xs, m) ==
  IF xs = <<>> THEN 0
  ELSE Mul(Head(xs) - m, Head(xs) - m) + SumSquaredDev(Tail(xs), m)

\* ss.sampleVariance: the n - 1 denominator (n >= 2)
ssSampleVariance(xs) == Div(SumSquaredDev(xs, ssMean(xs)), Fx(Len(xs) - 1))

\* the standard deviation with denominator n
ssStandardDeviationPopulation(xs) == Sqrt(Div(SumSquaredDev(xs, ssMean(xs)), Fx(Len(xs))))

ssSampleStandardDeviation(xs) == Sqrt(ssSampleVariance(xs))

RECURSIVE SeqMin(_)
SeqMin(s) == IF Len(s) = 1 THEN s[1] ELSE Min2(Head(s), SeqMin(Tail(s)))

RECURSIVE SeqMax(_)
SeqMax(s) == IF Len(s) = 1 THEN s[1] ELSE Max2(Head(s), SeqMax(Tail(s)))

\* [...xs].sort((a, b) => a - b): ascending, stable
RECURSIVE Insert(_, _)
Insert(x, s) ==
  IF s = <<>> THEN <<x>>
  ELSE IF x < Head(s) THEN <<x>> \o s
  ELSE <<Head(s)>> \o Insert(x, Tail(s))

RECURSIVE SortAsc(_)
SortAsc(s) == IF s = <<>> THEN <<>> ELSE Insert(s[Len(s)], SortAsc(SubSeq(s, 1, Len(s) - 1)))

\* ------------------------------------------------------------------------
\* Effect-size labels
\* ------------------------------------------------------------------------

\* getEffectSizeLabel (Cohen's d): every comparison with NaN is false
getEffectSizeLabel(d) ==
  LET absD == XAbs(d)
  IN  IF XLess(absD, 200000) THEN "negligible"
      ELSE IF XLess(absD, 500000) THEN "small"
      ELSE IF XLess(absD, 800000) THEN "medium"
      ELSE "large"

\* the rank-biserial label on the scale of Cohen's d
getEffectSizeLabelRankBiserialCohen(r) ==
  LET absR == Abs(r)
  IN  IF absR < 200000 THEN "negligible"
      ELSE IF absR < 500000 THEN "small"
      ELSE IF absR < 800000 THEN "medium"
      ELSE "large"

getEffectSizeLabelRankBiserial(r) ==
  LET absR == Abs(r)
  IN  IF absR < 100000 THEN "negligible"
      ELSE IF absR < 300000 THEN "small"
      ELSE IF absR < 500000 THEN "medium"
      ELSE "large"

\* ------------------------------------------------------------------------
\* Welch's t-test
\* ------------------------------------------------------------------------

\* tDistCDF and tDistQuantile when an argument is NaN or infinite: NaN goes
\* through every comparison as false and through every operation as NaN;
\* t = +-Infinity with a finite df gives x = df / Infinity = 0
tDistCDFx(t, df) ==
  IF IsNaN(t) \/ IsNaN(df) THEN NaN
  ELSE IF ~IsFin(df) THEN NaN
  ELSE IF IsFin(t) THEN Fin(tDistCDF(Val(t), Val(df)))
  ELSE IF Val(df) > Fx(200) THEN (IF t = PosInf THEN Fin(SCALE) ELSE Fin(0))
  ELSE LET OfBeta(beta) == IF t = PosInf THEN Fin(SCALE - beta \div 2) ELSE Fin(beta \div 2)
       IN  OfBeta(incompleteBeta(0, Val(df) \div 2, SCALE \div 2))

tDistQuantilex(p, df) ==
  IF IsFin(df) THEN Fin(tDistQuantile(p, Val(df))) ELSE NaN

\* c - k * e and c + k * e style arithmetic on an extended number
XLin(c, k, e) == IF IsFin(e) THEN Fin(c + k * Val(e)) ELSE IF IsNaN(e) THEN NaN
                 ELSE IF (k > 0) = (e = PosInf) THEN PosInf ELSE NegInf

\* tCrit * se: NaN * 0 = NaN, Infinity * 0 = NaN
XMulFin(e, c) ==
  IF IsFin(e) THEN Fin(Mul(Val(e), c))
  ELSE IF IsNaN(e) \/ c = 0 THEN NaN
  ELSE IF (c > 0) = (e = PosInf) THEN PosInf ELSE NegInf

\* the degrees of freedom weighted by the sample sizes n1 and n2 instead of
\* n1 - 1 and n2 - 1
welchTTestDfBySize(sampleA, sampleB, alpha) ==
  LET xa == FxSeq(sampleA)
      xb == FxSeq(sampleB)
      n1 == Len(sampleA)
      n2 == Len(sampleB)
      m1 == ssMean(xa)
      m2 == ssMean(xb)
      v1 == ssSampleVariance(xa)
      v2 == ssSampleVariance(xb)
      s1 == Div(v1, Fx(n1))
      s2 == Div(v2, Fx(n2))
      se == Sqrt(s1 + s2)
      t == XDiv(m1 - m2, se)
      num == Mul(s1 + s2, s1 + s2)
      denom == Div(Mul(s1, s1), Fx(n1)) + Div(Mul(s2, s2), Fx(n2))
      df == XDiv(num, denom)
      pooledStd == Sqrt(Div((n1 - 1) * v1 + (n2 - 1) * v2, Fx(n1 + n2 - 2)))
      effectSize == XDiv(m1 - m2, pooledStd)
      meanDiff == m1 - m2
      \* pValue = 2 * (1 - tDistCDF(|t|, df)); half = tCrit * se
      Result(pValue, half) ==
        [t |-> t,
         df |-> df,
         pValue |-> pValue,
         significant |-> XLess(pValue, alpha),
         effectSize |-> effectSize,
         effectSizeLabel |-> getEffectSizeLabel(effectSize),
         meanDiff |-> meanDiff,
         ci95 |-> <<XLin(meanDiff, -1, half), XLin(meanDiff, 1, half)>>]
  IN  Result(XLin(2 * SCALE, -2, tDistCDFx(XAbs(t), df)),
             XMulFin(tDistQuantilex(SCALE - alpha \div 2, df), se))

welchTTest(sampleA, sampleB, alpha) ==
  LET xa == FxSeq(sampleA)
      xb == FxSeq(sampleB)
      n1 == Len(sampleA)
      n2 == Len(sampleB)
      m1 == ssMean(xa)
      m2 == ssMean(xb)
      v1 == ssSampleVariance(xa)
      v2 == ssSampleVariance(xb)
      s1 == Div(v1, Fx(n1))
      s2 == Div(v2, Fx(n2))
      se == Sqrt(s1 + s2)
      t == XDiv(m1 - m2, se)
      num == Mul(s1 + s2, s1 + s2)
      denom == Div(Mul(s1, s1), Fx(n1 - 1)) + Div(Mul(s2, s2), Fx(n2 - 1))
      df == XDiv(num, denom)
      pooledStd == Sqrt(Div((n1 - 1) * v1 + (n2 - 1) * v2, Fx(n1 + n2 - 2)))
      effectSize == XDiv(m1 - m2, pooledStd)
      meanDiff == m1 - m2
      \* pValue = 2 * (1 - tDistCDF(|t|, df)); half = tCrit * se
      Result(pValue, half) ==
        [t |-> t,
         df |-> df,
         pValue |-> pValue,
         significant |-> XLess(pValue, alpha),
         effectSize |-> effectSize,
         effectSizeLabel |-> getEffectSizeLabel(effectSize),
         meanDiff |-> meanDiff,
         ci95 |-> <<XLin(meanDiff, -1, half), XLin(meanDiff, 1, half)>>]
  IN  Result(XLin(2 * SCALE, -2, tDistCDFx(XAbs(t), df)),
             XMulFin(tDistQuantilex(SCALE - alpha \div 2, df), se))

\* ------------------------------------------------------------------------
\* Mann-Whitney U
\* ------------------------------------------------------------------------

\* assignRanks on ascending values: positions i+1..j of a run of equal values
\* all get the average rank (i + 1 + j) / 2 (0-based i, exclusive j)
RECURSIVE RunEnd(_, _)
RunEnd(values, j) ==
  IF j <= Len(values) /\ values[j] = values[1] THEN RunEnd(values, j + 1) ELSE j

RECURSIVE assignRanksFrom(_, _)
assignRanksFrom(values, i) ==
  IF values = <<>> THEN <<>>
  ELSE LET k == RunEnd(values, 1) - 1
           avgRank == Div(Fx(i + 1 + (i + k)), Fx(2))
       IN  [x \in 1..k |-> avgRank] \o assignRanksFrom(SubSeq(values, k + 1, Len(values)), i + k)

\* ranks by position, equal values not averaged
assignRanksOrdinal(values) == [i \in 1..Len(values) |-> Fx(i)]

assignRanks(values) == assignRanksFrom(values, 0)

\* combined.sort((a, b) => a.value - b.value), a stable sort of tagged values
RECURSIVE InsertTagged(_, _)
InsertTagged(x, s) ==
  IF s = <<>> THEN <<x>>
  ELSE IF x.value < Head(s).value THEN <<x>> \o s
  ELSE <<Head(s)>> \o InsertTagged(x, Tail(s))

RECURSIVE SortTagged(_)
SortTagged(s) ==
  IF s = <<>> THEN <<>>
  ELSE InsertTagged(s[Len(s)], SortTagged(SubSeq(s, 1, Len(s) - 1)))

RECURSIVE RankSum(_, _, _)
RankSum(combined, ranks, g) ==
  IF combined = <<>> THEN 0
  ELSE (IF Head(combined).group = g THEN Head(ranks) ELSE 0)
       + RankSum(Tail(combined), Tail(ranks), g)

\* U taken from the first sample alone
mannWhitneyUFirst(sampleA, sampleB, alpha) ==
  LET n1 == Len(sampleA)
      n2 == Len(sampleB)
      combined == SortTagged([i \in 1..n1 |-> [value |-> sampleA[i], group |-> "A"]]
                             \o [i \in 1..n2 |-> [value |-> sampleB[i], group |-> "B"]])
      ranks == assignRanks([i \in 1..(n1 + n2) |-> combined[i].value])
      R1 == RankSum(combined, ranks, "A")
      R2 == RankSum(combined, ranks, "B")
      U1 == R1 - Div(Fx(n1 * (n1 + 1)), Fx(2))
      U2 == R2 - Div(Fx(n2 * (n2 + 1)), Fx(2))
      U == U1
      meanU == Div(Fx(n1 * n2), Fx(2))
      stdU == Sqrt(Div(Fx(n1 * n2 * (n1 + n2 + 1)), Fx(12)))
      z == Div(U - meanU + SCALE \div 2, stdU)
      effectSize == SCALE - Div(2 * U, Fx(n1 * n2))
      Result(pValue) ==
        [U |-> U,
         pValue |-> pValue,
         significant |-> pValue < alpha,
         effectSize |-> effectSize,
         effectSizeLabel |-> getEffectSizeLabelRankBiserial(effectSize)]
  IN  Result(2 * normalCDF(-Abs(z)))

mannWhitneyU(sampleA, sampleB, alpha) ==
  LET n1 == Len(sampleA)
      n2 == Len(sampleB)
      combined == SortTagged([i \in 1..n1 |-> [value |-> sampleA[i], group |-> "A"]]
                             \o [i \in 1..n2 |-> [value |-> sampleB[i], group |-> "B"]])
      ranks == assignRanks([i \in 1..(n1 + n2) |-> combined[i].value])
      R1 == RankSum(combined, ranks, "A")
      R2 == RankSum(combined, ranks, "B")
      U1 == R1 - Div(Fx(n1 * (n1 + 1)), Fx(2))
      U2 == R2 - Div(Fx(n2 * (n2 + 1)), Fx(2))
      U == Min2(U1, U2)
      meanU == Div(Fx(n1 * n2), Fx(2))
      stdU == Sqrt(Div(Fx(n1 * n2 * (n1 + n2 + 1)), Fx(12)))
      z == Div(U - meanU + SCALE \div 2, stdU)
      effectSize == SCALE - Div(2 * U, Fx(n1 * n2))
      Result(pValue) ==
        [U |-> U,
         pValue |-> pValue,
         significant |-> pValue < alpha,
         effectSize |-> effectSize,
         effectSizeLabel |-> getEffectSizeLabelRankBiserial(effectSize)]
  IN  Result(2 * normalCDF(-Abs(z)))

\* ------------------------------------------------------------------------
\* Outlier detection, z-score method
\* ------------------------------------------------------------------------
\* the positions i, ascending, at which flags[i] = want
SelectIdx(flags, want) ==
  LET F[i \in 0..Len(flags)] ==
        IF i = 0 THEN <<>>
        ELSE IF flags[i] = want THEN Append(F[i - 1], i) ELSE F[i - 1]
  IN  F[Len(flags)]

\* the result of detectOutliers when nothing is flagged
NoOutliers(samples) ==
  [indices |-> <<>>,
   values |-> <<>>,
   cleaned |-> samples,
   count |-> 0,
   tooMany |-> FALSE,
   zScores |-> [i \in 1..Len(samples) |-> 0]]

\* detectOutliers flagging the values whose |z| is below the threshold
detectOutliersWithin(samples, threshold) ==
  IF Len(samples) < 3 THEN NoOutliers(samples)
  ELSE LET xs == FxSeq(samples)
           mean == ssMean(xs)
           stdDev == ssSampleStandardDeviation(xs)
       IN  IF stdDev < TINY THEN NoOutliers(samples)
           ELSE LET zScores == [i \in 1..Len(xs) |-> Div(xs[i] - mean, stdDev)]
                    flagged == [i \in 1..Len(xs) |-> Abs(zScores[i]) < threshold]
                    out == SelectIdx(flagged, TRUE)
                    in == SelectIdx(flagged, FALSE)
                IN  [indices |-> [k \in 1..Len(out) |-> out[k] - 1],
                     values |-> [k \in 1..Len(out) |-> samples[out[k]]],
                     cleaned |-> [k \in 1..Len(in) |-> samples[in[k]]],
                     count |-> Len(out),
                     tooMany |-> Div(Fx(Len(out)), Fx(Len(samples))) > 100000,
                     zScores |-> zScores]

\* detectOutliers flagging a value whose |z| equals the threshold
detectOutliersAtThreshold(samples, threshold) ==
  IF Len(samples) < 3 THEN NoOutliers(samples)
  ELSE LET xs == FxSeq(samples)
           mean == ssMean(xs)
           stdDev == ssSampleStandardDeviation(xs)
       IN  IF stdDev < TINY THEN NoOutliers(samples)
           ELSE LET zScores == [i \in 1..Len(xs) |-> Div(xs[i] - mean, stdDev)]
                    flagged == [i \in 1..Len(xs) |-> Abs(zScores[i]) >= threshold]
                    out == SelectIdx(flagged, TRUE)
                    in == SelectIdx(flagged, FALSE)
                IN  [indices |-> [k \in 1..Len(out) |-> out[k] - 1],
                     values |-> [k \in 1..Len(out) |-> samples[out[k]]],
                     cleaned |-> [k \in 1..Len(in) |-> samples[in[k]]],
                     count |-> Len(out),
                     tooMany |-> Div(Fx(Len(out)), Fx(Len(samples))) > 100000,
                     zScores |-> zScores]

\* detectOutliers computing z-scores from two values on
detectOutliersFromTwo(samples, threshold) ==
  IF Len(samples) < 2 THEN NoOutliers(samples)
  ELSE LET xs == FxSeq(samples)
           mean == ssMean(xs)
           stdDev == ssSampleStandardDeviation(xs)
       IN  IF stdDev < TINY THEN NoOutliers(samples)
           ELSE LET zScores == [i \in 1..Len(xs) |-> Div(xs[i] - mean, stdDev)]
                    flagged == [i \in 1..Len(xs) |-> Abs(zScores[i]) > threshold]
                    out == SelectIdx(flagged, TRUE)
                    in == SelectIdx(flagged, FALSE)
                IN  [indices |-> [k \in 1..Len(out) |-> out[k] - 1],
                     values |-> [k \in 1..Len(out) |-> samples[out[k]]],
                     cleaned |-> [k \in 1..Len(in) |-> samples[in[k]]],
                     count |-> Len(out),
                     tooMany |-> Div(Fx(Len(out)), Fx(Len(samples))) > 100000,
                     zScores |-> zScores]

\* indices are the source's 0-based array positions
detectOutliers(samples, threshold) ==
  IF Len(samples) < 3 THEN NoOutliers(samples)
  ELSE LET xs == FxSeq(samples)
           mean == ssMean(xs)
           stdDev == ssSampleStandardDeviation(xs)
       IN  IF stdDev < TINY THEN NoOutliers(samples)
           ELSE LET zScores == [i \in 1..Len(xs) |-> Div(xs[i] - mean, stdDev)]
                    flagged == [i \in 1..Len(xs) |-> Abs(zScores[i]) > threshold]
                    out == SelectIdx(flagged, TRUE)
                    in == SelectIdx(flagged, FALSE)
                IN  [indices |-> [k \in 1..Len(out) |-> out[k] - 1],
                     values |-> [k \in 1..Len(out) |-> samples[out[k]]],
                     cleaned |-> [k \in 1..Len(in) |-> samples[in[k]]],
                     count |-> Len(out),
                     tooMany |-> Div(Fx(Len(out)), Fx(Len(samples))) > 100000,
                     zScores |-> zScores]

\* ------------------------------------------------------------------------
\* Outlier detection, IQR method, and the two methods combined
\* ------------------------------------------------------------------------

\* the default arguments of detectOutliers and detectOutliersIQR
DefaultZThreshold == 2500000
DefaultIqrMultiplier == 1500000

\* below this sample size detectOutliersCombined prefers the IQR method
SmallSampleSize == 20

\* below this sample size detectOutliersIQR estimates no quartiles
MinQuartileSize == 4

\* ss.quantile(sorted, p) for p = quarters / 4 on an ascending sample:
\* idx = n * p; a fractional idx takes the element at ceil(idx) - 1, a whole
\* idx of an even-length sample averages the elements at idx - 1 and idx
\* (0-based positions)
ssQuantile(sorted, quarters) ==
  LET n == Len(sorted)
      idx == (n * quarters) \div 4
  IN  IF quarters = 4 THEN sorted[n]
      ELSE IF quarters = 0 THEN sorted[1]
      ELSE IF (n * quarters) % 4 # 0 THEN sorted[idx + 1]
      ELSE IF n % 2 = 0 THEN (sorted[idx] + sorted[idx + 1]) \div 2
      ELSE sorted[idx + 1]

\* detectOutliersIQR with tooMany from 10% of the values on
detectOutliersIQRTenPercent(samples, multiplier) ==
  IF Len(samples) < MinQuartileSize
  THEN [indices |-> <<>>,
        values |-> <<>>,
        cleaned |-> samples,
        count |-> 0,
        tooMany |-> FALSE,
        Q1 |-> IF Len(samples) > 0 THEN Fx(samples[1]) ELSE 0,
        Q3 |-> IF Len(samples) > 0 THEN Fx(samples[Len(samples)]) ELSE 0,
        IQR |-> 0,
        lowerFence |-> NegInf,
        upperFence |-> PosInf]
  ELSE LET xs == FxSeq(samples)
           sorted == SortAsc(xs)
           Q1 == ssQuantile(sorted, 1)
           Q3 == ssQuantile(sorted, 3)
           IQR == Q3 - Q1
           lowerFence == Q1 - Mul(multiplier, IQR)
           upperFence == Q3 + Mul(multiplier, IQR)
           flagged == [i \in 1..Len(xs) |-> xs[i] < lowerFence \/ xs[i] > upperFence]
           out == SelectIdx(flagged, TRUE)
           in == SelectIdx(flagged, FALSE)
       IN  [indices |-> [k \in 1..Len(out) |-> out[k] - 1],
            values |-> [k \in 1..Len(out) |-> samples[out[k]]],
            cleaned |-> [k \in 1..Len(in) |-> samples[in[k]]],
            count |-> Len(out),
            tooMany |-> Div(Fx(Len(out)), Fx(Len(samples))) >= 100000,
            Q1 |-> Q1,
            Q3 |-> Q3,
            IQR |-> IQR,
            lowerFence |-> Fin(lowerFence),
            upperFence |-> Fin(upperFence)]

\* detectOutliersIQR flagging the values on a fence as well
detectOutliersIQROnFence(samples, multiplier) ==
  IF Len(samples) < MinQuartileSize
  THEN [indices |-> <<>>,
        values |-> <<>>,
        cleaned |-> samples,
        count |-> 0,
        tooMany |-> FALSE,
        Q1 |-> IF Len(samples) > 0 THEN Fx(samples[1]) ELSE 0,
        Q3 |-> IF Len(samples) > 0 THEN Fx(samples[Len(samples)]) ELSE 0,
        IQR |-> 0,
        lowerFence |-> NegInf,
        upperFence |-> PosInf]
  ELSE LET xs == FxSeq(samples)
           sorted == SortAsc(xs)
           Q1 == ssQuantile(sorted, 1)
           Q3 == ssQuantile(sorted, 3)
           IQR == Q3 - Q1
           lowerFence == Q1 - Mul(multiplier, IQR)
           upperFence == Q3 + Mul(multiplier, IQR)
           flagged == [i \in 1..Len(xs) |-> xs[i] <= lowerFence \/ xs[i] >= upperFence]
           out == SelectIdx(flagged, TRUE)
           in == SelectIdx(flagged, FALSE)
       IN  [indices |-> [k \in 1..Len(out) |-> out[k] - 1],
            values |-> [k \in 1..Len(out) |-> samples[out[k]]],
            cleaned |-> [k \in 1..Len(in) |-> samples[in[k]]],
            count |-> Len(out),
            tooMany |-> Div(Fx(Len(out)), Fx(Len(samples))) > 100000,
            Q1 |-> Q1,
            Q3 |-> Q3,
            IQR |-> IQR,
            lowerFence |-> Fin(lowerFence),
            upperFence |-> Fin(upperFence)]

\* indices are the source's 0-based array positions; the fences are
\* extended numbers
detectOutliersIQR(samples, multiplier) ==
  IF Len(samples) < MinQuartileSize
  THEN [indices |-> <<>>,
        values |-> <<>>,
        cleaned |-> samples,
        count |-> 0,
        tooMany |-> FALSE,
        Q1 |-> IF Len(samples) > 0 THEN Fx(samples[1]) ELSE 0,
        Q3 |-> IF Len(samples) > 0 THEN Fx(samples[Len(samples)]) ELSE 0,
        IQR |-> 0,
        lowerFence |-> NegInf,
        upperFence |-> PosInf]
  ELSE LET xs == FxSeq(samples)
           sorted == SortAsc(xs)
           Q1 == ssQuantile(sorted, 1)
           Q3 == ssQuantile(sorted, 3)
           IQR == Q3 - Q1
           lowerFence == Q1 - Mul(multiplier, IQR)
           upperFence == Q3 + Mul(multiplier, IQR)
           flagged == [i \in 1..Len(xs) |-> xs[i] < lowerFence \/ xs[i] > upperFence]
           out == SelectIdx(flagged, TRUE)
           in == SelectIdx(flagged, FALSE)
       IN  [indices |-> [k \in 1..Len(out) |-> out[k] - 1],
            values |-> [k \in 1..Len(out) |-> samples[out[k]]],
            cleaned |-> [k \in 1..Len(in) |-> samples[in[k]]],
            count |-> Len(out),
            tooMany |-> Div(Fx(Len(out)), Fx(Len(samples))) > 100000,
            Q1 |-> Q1,
            Q3 |-> Q3,
            IQR |-> IQR,
            lowerFence |-> Fin(lowerFence),
            upperFence |-> Fin(upperFence)]

\* the recommendation taking a z-score count above double the IQR count as
\* enough, whatever the IQR count
RecommendationAnyDouble(zScore, iqr, n) ==
  IF zScore.count = 0 /\ iqr.count > 0
  THEN [recommended |-> "iqr",
        reason |-> "Z-score method found no outliers but IQR did - possible masking effect"]
  ELSE IF zScore.count > iqr.count * 2
  THEN [recommended |-> "iqr",
        reason |-> "Z-score flagged many more values - data may be non-normal"]
  ELSE IF n < SmallSampleSize
  THEN [recommended |-> "iqr",
        reason |-> "Small sample size (n < 20) - IQR is more robust"]
  ELSE [recommended |-> "z-score",
        reason |-> "Standard recommendation for larger samples"]

\* the recommendation of detectOutliersCombined and its reason
Recommendation(zScore, iqr, n) ==
  IF zScore.count = 0 /\ iqr.count > 0
  THEN [recommended |-> "iqr",
        reason |-> "Z-score method found no outliers but IQR did - possible masking effect"]
  ELSE IF zScore.count > iqr.count * 2 /\ iqr.count > 0
  THEN [recommended |-> "iqr",
        reason |-> "Z-score flagged many more values - data may be non-normal"]
  ELSE IF n < SmallSampleSize
  THEN [recommended |-> "iqr",
        reason |-> "Small sample size (n < 20) - IQR is more robust"]
  ELSE [recommended |-> "z-score",
        reason |-> "Standard recommendation for larger samples"]

detectOutliersCombined(samples, zThreshold, iqrMultiplier) ==
  LET Combined(zScore, iqr, choice) ==
        [zScore |-> zScore,
         iqr |-> iqr,
         recommended |-> choice.recommended,
         reason |-> choice.reason,
         outliers |-> IF choice.recommended = "z-score" THEN zScore.values ELSE iqr.values]
      Both(zScore, iqr) == Combined(zScore, iqr, Recommendation(zScore, iqr, Len(samples)))
  IN  Both(detectOutliers(samples, zThreshold), detectOutliersIQR(samples, iqrMultiplier))

\* ------------------------------------------------------------------------
\* Shapiro-Wilk
\* ------------------------------------------------------------------------

\* the tabulated coefficients for n = 3..11 (Shapiro & Wilk, 1965)
ShapiroWilkTables ==
  [n \in 3..11 |->
     CASE n = 3 -> <<707100>>
       [] n = 4 -> <<687200, 167700>>
       [] n = 5 -> <<664600, 241300>>
       [] n = 6 -> <<643100, 280600, 87500>>
       [] n = 7 -> <<623300, 303100, 140100>>
       [] n = 8 -> <<605200, 316400, 174300, 56100>>
       [] n = 9 -> <<588800, 324400, 197600, 94700>>
       [] n = 10 -> <<573900, 329100, 214100, 122400, 39900>>
       [] n = 11 -> <<560100, 331500, 226000, 142900, 69500>>]

RECURSIVE SumSquares(_)
SumSquares(xs) == IF xs = <<>> THEN 0 ELSE Mul(Head(xs), Head(xs)) + SumSquares(Tail(xs))

\* Royston's approximation from Blom's expected order statistics
approximateCoefficients(n) ==
  LET halfN == n \div 2
      Normalise(a, aNorm) ==
        IF aNorm > 0 THEN [i \in 1..halfN |-> Div(a[i], aNorm)] ELSE a
      Coefficients(a) == Normalise(a, Sqrt(SumSquares(a)))
      Differences(m, mNorm) ==
        Coefficients([i \in 1..halfN |-> Div(m[n + 1 - i] - m[i], 2 * mNorm)])
      OrderStatistics(m) == Differences(m, Sqrt(SumSquares(m)))
  IN  OrderStatistics([i \in 1..n |->
                         normalQuantile(Div(Fx(i) - 375000, Fx(n) + 250000))])

getShapiroWilkCoefficients(n) ==
  IF n <= 11 /\ n \in DOMAIN ShapiroWilkTables THEN ShapiroWilkTables[n]
  ELSE approximateCoefficients(n)

\* the polynomials in n of the small-sample branch, evaluated exactly in
\* units of 1e-7 and then brought to the fixed-point scale
SmallGamma(n) == 459000 * n - 2273000
SmallMu(n) == (-6714 * n * n * n + 250540 * n * n - 3997800 * n + 5440000) \div 10
SmallLogSigma(n) == (-20322 * n * n * n + 627670 * n * n - 7785700 * n + 13822000) \div 10

shapiroWilkPValue(W, n) ==
  IF W >= SCALE THEN SCALE
  ELSE IF W <= 0 THEN 0
  ELSE LET inner == SmallGamma(n) - Ln(SCALE - W)
           logN == Ln(Fx(n))
           SmallZ(w) == Div(w - SmallMu(n), Exp(SmallLogSigma(n)))
           LargeMu(logN2, logN3) ==
             Mul(38915, logN3) \div 10 - Mul(83751, logN2) - Mul(310820, logN) - 1586100
           LargeSigma(logN2) ==
             Exp(Mul(30302, logN2) \div 10 - Mul(82676, logN) - 480300)
           LargeZ(w, logN2) ==
             Div(w - LargeMu(logN2, Mul(logN2, logN)), LargeSigma(logN2))
       IN  IF n <= 11 /\ inner <= 0 THEN 0
           ELSE Max2(0, Min2(SCALE, SCALE - normalCDF(
                  IF n <= 11 THEN SmallZ(-Ln(inner))
                  ELSE LargeZ(Ln(SCALE - W), Mul(logN, logN)))))

\* b = sum over the first floor(n/2) pairs of a[i] * (x[n-1-i] - x[i])
RECURSIVE PairSum(_, _, _)
PairSum(a, sorted, i) ==
  IF i > Len(sorted) \div 2 THEN 0
  ELSE (IF i <= Len(a) THEN Mul(a[i], sorted[Len(sorted) + 1 - i] - sorted[i]) ELSE 0)
       + PairSum(a, sorted, i + 1)

\* the interpretation bands of shapiroWilkTest
NormalityBand(pValue) ==
  IF pValue >= 100000 THEN "appears-normal"
  ELSE IF pValue >= 50000 THEN "marginal"
  ELSE IF pValue >= 10000 THEN "non-normal"
  ELSE "strongly-non-normal"

\* shapiroWilkTest reporting a sample of identical values as not normal
shapiroWilkTestIdenticalNotNormal(samples) ==
  LET n == Len(samples)
  IN  IF n < 3
      THEN [W |-> SCALE, pValue |-> SCALE, isNormal |-> TRUE,
            interpretation |-> "insufficient-data", n |-> n]
      ELSE IF n > 5000
      THEN [W |-> 0, pValue |-> 0, isNormal |-> FALSE,
            interpretation |-> "sample-too-large", n |-> n]
      ELSE LET sorted == SortAsc(FxSeq(samples))
               sumSquaredDev == SumSquaredDev(sorted, ssMean(sorted))
               Statistic(b) == Max2(0, Min2(SCALE, Div(Mul(b, b), sumSquaredDev)))
               W == Statistic(PairSum(getShapiroWilkCoefficients(n), sorted, 1))
               Result(pValue) ==
                 [W |-> W, pValue |-> pValue, isNormal |-> pValue >= 50000,
                  interpretation |-> NormalityBand(pValue), n |-> n]
           IN  IF sumSquaredDev < TINY
               THEN [W |-> 0, pValue |-> 0, isNormal |-> FALSE,
                     interpretation |-> "all-identical", n |-> n]
               ELSE Result(shapiroWilkPValue(W, n))

\* shapiroWilkTest without the clamp of W to [0, 1]
shapiroWilkTestUnclamped(samples) ==
  LET n == Len(samples)
  IN  IF n < 3
      THEN [W |-> SCALE, pValue |-> SCALE, isNormal |-> TRUE,
            interpretation |-> "insufficient-data", n |-> n]
      ELSE IF n > 5000
      THEN [W |-> 0, pValue |-> 0, isNormal |-> FALSE,
            interpretation |-> "sample-too-large", n |-> n]
      ELSE LET sorted == SortAsc(FxSeq(samples))
               sumSquaredDev == SumSquaredDev(sorted, ssMean(sorted))
               Statistic(b) == Div(Mul(b, b), sumSquaredDev)
               W == Statistic(PairSum(getShapiroWilkCoefficients(n), sorted, 1))
               Result(pValue) ==
                 [W |-> W, pValue |-> pValue, isNormal |-> pValue >= 50000,
                  interpretation |-> NormalityBand(pValue), n |-> n]
           IN  IF sumSquaredDev < TINY
               THEN [W |-> SCALE, pValue |-> SCALE, isNormal |-> TRUE,
                     interpretation |-> "all-identical", n |-> n]
               ELSE Result(shapiroWilkPValue(W, n))

shapiroWilkTest(samples) ==
  LET n == Len(samples)
  IN  IF n < 3
      THEN [W |-> SCALE, pValue |-> SCALE, isNormal |-> TRUE,
            interpretation |-> "insufficient-data", n |-> n]
      ELSE IF n > 5000
      THEN [W |-> 0, pValue |-> 0, isNormal |-> FALSE,
            interpretation |-> "sample-too-large", n |-> n]
      ELSE LET sorted == SortAsc(FxSeq(samples))
               sumSquaredDev == SumSquaredDev(sorted, ssMean(sorted))
               Statistic(b) == Max2(0, Min2(SCALE, Div(Mul(b, b), sumSquaredDev)))
               W == Statistic(PairSum(getShapiroWilkCoefficients(n), sorted, 1))
               Result(pValue) ==
                 [W |-> W, pValue |-> pValue, isNormal |-> pValue >= 50000,
                  interpretation |-> NormalityBand(pValue), n |-> n]
           IN  IF sumSquaredDev < TINY
               THEN [W |-> SCALE, pValue |-> SCALE, isNormal |-> TRUE,
                     interpretation |-> "all-identical", n |-> n]
               ELSE Result(shapiroWilkPValue(W, n))

\* ------------------------------------------------------------------------
\* Sample diagnostics
\* ------------------------------------------------------------------------
getSampleDiagnostics(samples, outlierThreshold) ==
  LET n == Len(samples)
  IN  IF n = 0
      THEN [n |-> 0, mean |-> 0, stdDev |-> 0, min |-> 0, max |-> 0,
            outliers |-> NoOutliers(<<>>),
            normality |-> [W |-> SCALE, pValue |-> SCALE, isNormal |-> TRUE,
                           interpretation |-> "no-data", n |-> 0]]
      ELSE [n |-> n,
            mean |-> ssMean(FxSeq(samples)),
            stdDev |-> IF n > 1 THEN ssSampleStandardDeviation(FxSeq(samples)) ELSE 0,
            min |-> Fx(SeqMin(samples)),
            max |-> Fx(SeqMax(samples)),
            outliers |-> detectOutliers(samples, outlierThreshold),
            normality |-> shapiroWilkTest(samples)]

\* ------------------------------------------------------------------------
\* compareConditions
\* ------------------------------------------------------------------------

\* the defaults of compareConditions and its fixed thresholds
DefaultAlpha == 50000
DefaultEffectSizeMinimum == 500000
DefaultOutlierThreshold == 2500000
DefaultLabels == <<"A", "B">>
RankBiserialMinimum == 300000
MinSampleSize == 3

\* an optional field of the caller's config is <<>> (absent) or <<v>>
OrDefault(opt, d) == IF opt = <<>> THEN d ELSE opt[1]

\* fullConfig: the caller's config merged with the defaults
\* the merge in which a config that names labels takes every other optional
\* field from the defaults
MergeConfigLabelsAlone(config) ==
  IF config.labels # <<>>
  THEN [practicalThreshold |-> config.practicalThreshold,
        alpha |-> DefaultAlpha,
        effectSizeMinimum |-> DefaultEffectSizeMinimum,
        outlierThreshold |-> DefaultOutlierThreshold,
        labels |-> config.labels[1]]
  ELSE [practicalThreshold |-> config.practicalThreshold,
        alpha |-> OrDefault(config.alpha, DefaultAlpha),
        effectSizeMinimum |-> OrDefault(config.effectSizeMinimum, DefaultEffectSizeMinimum),
        outlierThreshold |-> OrDefault(config.outlierThreshold, DefaultOutlierThreshold),
        labels |-> DefaultLabels]

MergeConfig(config) ==
  [practicalThreshold |-> config.practicalThreshold,
   alpha |-> OrDefault(config.alpha, DefaultAlpha),
   effectSizeMinimum |-> OrDefault(config.effectSizeMinimum, DefaultEffectSizeMinimum),
   outlierThreshold |-> OrDefault(config.outlierThreshold, DefaultOutlierThreshold),
   labels |-> OrDefault(config.labels, DefaultLabels)]

\* Number.prototype.toFixed(k): the value rounded to k decimals, half away
\* from zero
ToFixed(v, k) ==
  LET unit == IF k = 1 THEN 100000 ELSE IF k = 2 THEN 10000
              ELSE IF k = 3 THEN 1000 ELSE 100
  IN  Sgn(v) * (((Abs(v) + unit \div 2) \div unit) * unit)

XToFixed(e, k) == IF IsFin(e) THEN Fin(ToFixed(Val(e), k)) ELSE e

\* a warning string, as the values rendered into its template
Warning(kind, label, detail) == [kind |-> kind, label |-> label, detail |-> detail]

OutlierWarnings(diag, label) ==
  IF diag.outliers.tooMany
  THEN <<Warning("too-many-outliers", label, <<diag.outliers.count, diag.n>>)>>
  ELSE IF diag.outliers.count > 0
  THEN <<Warning("outliers", label,
                 <<diag.outliers.count,
                   [i \in 1..Len(diag.outliers.values) |->
                      ToFixed(Fx(diag.outliers.values[i]), 1)]>>)>>
  ELSE <<>>

NormalityWarnings(diag, label) ==
  IF ~diag.normality.isNormal
  THEN <<Warning("normality", label,
                 <<ToFixed(diag.normality.W, 3), ToFixed(diag.normality.pValue, 4)>>)>>
  ELSE <<>>

\* AfterOutliers with an outlier count always setting 'caution'
AfterOutliersDowngrading(recommendation, diag) ==
  IF diag.outliers.tooMany THEN "use-nonparametric"
  ELSE IF diag.outliers.count > 0 THEN "caution"
  ELSE recommendation

\* the recommendation after the outlier check of one sample
AfterOutliers(recommendation, diag) ==
  IF diag.outliers.tooMany THEN "use-nonparametric"
  ELSE IF diag.outliers.count > 0
  THEN (IF recommendation = "proceed" THEN "caution" ELSE recommendation)
  ELSE recommendation

\* the recommendation after the normality check of one sample
AfterNormality(recommendation, diag) ==
  IF ~diag.normality.isNormal THEN "use-nonparametric" ELSE recommendation

\* the quality label with 'caution' counted as good
OverallQualityTwoLevels(recommendation) ==
  IF recommendation = "use-nonparametric" THEN "poor" ELSE "good"

\* the overall quality label of a recommendation
OverallQuality(recommendation) ==
  IF recommendation = "use-nonparametric" THEN "poor"
  ELSE IF recommendation = "caution" THEN "acceptable"
  ELSE "good"

\* assessDataQuality with each sample's checks taken together
assessDataQualityBySample(diagA, diagB, labels) ==
  LET warnings == OutlierWarnings(diagA, labels[1]) \o NormalityWarnings(diagA, labels[1])
                  \o OutlierWarnings(diagB, labels[2])
                  \o NormalityWarnings(diagB, labels[2])
      recommendation ==
        AfterNormality(AfterOutliers(AfterNormality(AfterOutliers("proceed", diagA),
                                                    diagA), diagB), diagB)
  IN  [overallQuality |-> OverallQuality(recommendation),
       warnings |-> warnings,
       recommendation |-> recommendation]

\* the merge of the two samples' diagnostics: outliers of A, outliers of B,
\* normality of A, normality of B
assessDataQuality(diagA, diagB, labels) ==
  LET warnings == OutlierWarnings(diagA, labels[1]) \o OutlierWarnings(diagB, labels[2])
                  \o NormalityWarnings(diagA, labels[1])
                  \o NormalityWarnings(diagB, labels[2])
      recommendation ==
        AfterNormality(AfterNormality(AfterOutliers(AfterOutliers("proceed", diagA),
                                                    diagB), diagA), diagB)
  IN  [overallQuality |-> OverallQuality(recommendation),
       warnings |-> warnings,
       recommendation |-> recommendation]

\* determineVerdict without its third gate
determineVerdictTwoGates(isStatisticallySignificant, absEffectSize, absDifference, config, isRankBiserial) ==
  LET effectThreshold == IF isRankBiserial THEN 300000 ELSE config.effectSizeMinimum
  IN  IF ~isStatisticallySignificant THEN "not-significant"
      ELSE IF XLess(absEffectSize, effectThreshold) THEN "not-significant"
      ELSE "significant"

\* determineVerdict with the configured minimum for both effect-size measures
determineVerdictOneThreshold(isStatisticallySignificant, absEffectSize, absDifference, config, isRankBiserial) ==
  IF ~isStatisticallySignificant THEN "not-significant"
  ELSE IF XLess(absEffectSize, config.effectSizeMinimum) THEN "not-significant"
  ELSE IF absDifference < config.practicalThreshold THEN "not-significant"
  ELSE "significant"

\* the three gates; absEffectSize is an extended number, and a comparison
\* with NaN is false
determineVerdict(isStatisticallySignificant, absEffectSize, absDifference, config, isRankBiserial) ==
  LET effectThreshold == IF isRankBiserial THEN RankBiserialMinimum
                         ELSE config.effectSizeMinimum
  IN  IF ~isStatisticallySignificant THEN "not-significant"
      ELSE IF XLess(absEffectSize, effectThreshold) THEN "not-significant"
      ELSE IF absDifference < config.practicalThreshold THEN "not-significant"
      ELSE "significant"

\* differencePercent: relative to meanB, 0 when meanB is 0
DifferencePercent(diff, meanB) == IF meanB # 0 THEN Div(diff, meanB) * 100 ELSE 0

\* the Mann-Whitney branch reporting the poor data quality as its verdict
MannWhitneyBranchFlagged(sampleA, sampleB, diagA, diagB, fullConfig) ==
  LET Tested(result) ==
        [result |-> result,
         evidence |->
           [meanA |-> diagA.mean,
            meanB |-> diagB.mean,
            difference |-> diagA.mean - diagB.mean,
            differencePercent |-> DifferencePercent(diagA.mean - diagB.mean, diagB.mean),
            pValue |-> Fin(result.pValue),
            testStatistic |-> Fin(result.U),
            degreesOfFreedom |-> NaN,
            effectSize |-> Fin(result.effectSize),
            effectSizeLabel |-> result.effectSizeLabel,
            ci95 |-> <<>>,
            testUsed |-> "mann-whitney-u"],
         testVerdict |-> "data-quality-issue"]
  IN  Tested(mannWhitneyU(sampleA, sampleB, fullConfig.alpha))

\* the Mann-Whitney branch of compareConditions: the test's result, the
\* evidence built from it and the verdict
MannWhitneyBranch(sampleA, sampleB, diagA, diagB, fullConfig) ==
  LET Tested(result) ==
        [result |-> result,
         evidence |->
           [meanA |-> diagA.mean,
            meanB |-> diagB.mean,
            difference |-> diagA.mean - diagB.mean,
            differencePercent |-> DifferencePercent(diagA.mean - diagB.mean, diagB.mean),
            pValue |-> Fin(result.pValue),
            testStatistic |-> Fin(result.U),
            degreesOfFreedom |-> NaN,
            effectSize |-> Fin(result.effectSize),
            effectSizeLabel |-> result.effectSizeLabel,
            ci95 |-> <<>>,
            testUsed |-> "mann-whitney-u"],
         testVerdict |->
           determineVerdict(result.significant, Fin(Abs(result.effectSize)),
                            Abs(diagA.mean - diagB.mean), fullConfig, TRUE)]
  IN  Tested(mannWhitneyU(sampleA, sampleB, fullConfig.alpha))

\* the Welch branch of compareConditions; ci95 present is <<ci95>>,
\* null is <<>>
WelchBranch(sampleA, sampleB, diagA, diagB, fullConfig) ==
  LET Tested(result) ==
        [result |-> result,
         evidence |->
           [meanA |-> diagA.mean,
            meanB |-> diagB.mean,
            difference |-> result.meanDiff,
            differencePercent |-> DifferencePercent(result.meanDiff, diagB.mean),
            pValue |-> result.pValue,
            testStatistic |-> result.t,
            degreesOfFreedom |-> result.df,
            effectSize |-> result.effectSize,
            effectSizeLabel |-> result.effectSizeLabel,
            ci95 |-> <<result.ci95>>,
            testUsed |-> "welch-t-test"],
         testVerdict |->
           determineVerdict(result.significant, XAbs(result.effectSize),
                            Abs(result.meanDiff), fullConfig, FALSE)]
  IN  Tested(welchTTest(sampleA, sampleB, fullConfig.alpha))

\* the interpretation string, as the sequence of its sentences, each the
\* values rendered into its template
buildInterpretation(evidence, verdict, recommendation, config) ==
  LET diff == evidence.difference
      main == <<"main", config.labels[1], ToFixed(Abs(diff), 1),
                IF diff > 0 THEN "higher" ELSE "lower", config.labels[2],
                ToFixed(Abs(evidence.differencePercent), 1)>>
      stats == IF evidence.testUsed = "welch-t-test"
               THEN <<<<"welch", XToFixed(evidence.testStatistic, 3),
                        XToFixed(evidence.pValue, 4), XToFixed(evidence.effectSize, 2),
                        evidence.effectSizeLabel>>>>
                    \o (IF evidence.ci95 # <<>>
                        THEN <<<<"ci95", XToFixed(evidence.ci95[1][1], 1),
                                 XToFixed(evidence.ci95[1][2], 1)>>>>
                        ELSE <<>>)
               ELSE <<<<"mann-whitney", XToFixed(evidence.testStatistic, 1),
                        XToFixed(evidence.pValue, 4), XToFixed(evidence.effectSize, 2),
                        evidence.effectSizeLabel>>>>
      gates == <<config.alpha, config.effectSizeMinimum, config.practicalThreshold>>
      verdictPart == IF verdict \in {"significant", "not-significant"}
                     THEN <<"verdict", verdict, gates>>
                     ELSE <<"verdict", verdict, <<>>>>
      note == IF recommendation # "proceed"
              THEN <<<<"note", IF recommendation = "caution"
                               THEN "acceptable but with warnings" ELSE "poor">>>>
              ELSE <<>>
  IN  <<main>> \o stats \o <<verdictPart>> \o note

\* a placeholder with every number zero
PlaceholderEvidenceAllZero(diagA, diagB) ==
  [meanA |-> diagA.mean,
   meanB |-> diagB.mean,
   difference |-> diagA.mean - diagB.mean,
   differencePercent |-> 0,
   pValue |-> Fin(0),
   testStatistic |-> Fin(0),
   degreesOfFreedom |-> Fin(0),
   effectSize |-> Fin(0),
   effectSizeLabel |-> "negligible",
   ci95 |-> <<>>,
   testUsed |-> "welch-t-test"]

\* the evidence of an insufficient-data result: no test has run
PlaceholderEvidence(diagA, diagB) ==
  [meanA |-> diagA.mean,
   meanB |-> diagB.mean,
   difference |-> diagA.mean - diagB.mean,
   differencePercent |-> 0,
   pValue |-> Fin(SCALE),
   testStatistic |-> Fin(0),
   degreesOfFreedom |-> Fin(0),
   effectSize |-> Fin(0),
   effectSizeLabel |-> "negligible",
   ci95 |-> <<>>,
   testUsed |-> "welch-t-test"]

createInsufficientDataResult(sampleA, sampleB, config) ==
  LET Diagnosed(diagA, diagB) ==
        [verdict |-> "insufficient-data",
         recommendation |-> "caution",
         evidence |-> PlaceholderEvidence(diagA, diagB),
         diagnostics |->
           [sampleA |-> diagA,
            sampleB |-> diagB,
            overallQuality |-> "poor",
            warnings |-> <<Warning("insufficient-data", config.labels,
                                   <<Len(sampleA), Len(sampleB), MinSampleSize>>)>>],
         interpretation |-> <<<<"cannot-compare", config.labels,
                                Len(sampleA), Len(sampleB)>>>>,
         config |-> config]
  IN  Diagnosed(getSampleDiagnostics(sampleA, config.outlierThreshold),
                getSampleDiagnostics(sampleB, config.outlierThreshold))

\* the object compareConditions returns on its main path
CompareResult(branch, diagA, diagB, quality, fullConfig) ==
  [verdict |-> branch.testVerdict,
   recommendation |-> quality.recommendation,
   evidence |-> branch.evidence,
   diagnostics |->
     [sampleA |-> diagA,
      sampleB |-> diagB,
      overallQuality |-> quality.overallQuality,
      warnings |-> quality.warnings],
   interpretation |-> buildInterpretation(branch.evidence, branch.testVerdict,
                                          quality.recommendation, fullConfig),
   config |-> fullConfig]

\* compareConditions as a function of its arguments
compareConditions(sampleA, sampleB, config) ==
  LET fullConfig == MergeConfig(config)
  IN  IF Len(sampleA) < MinSampleSize \/ Len(sampleB) < MinSampleSize
      THEN createInsufficientDataResult(sampleA, sampleB, fullConfig)
      ELSE LET Assessed(diagA, diagB, quality) ==
                 CompareResult(IF quality.recommendation = "use-nonparametric"
                               THEN MannWhitneyBranch(sampleA, sampleB, diagA, diagB,
                                                      fullConfig)
                               ELSE WelchBranch(sampleA, sampleB, diagA, diagB, fullConfig),
                               diagA, diagB, quality, fullConfig)
               Diagnosed(diagA, diagB) ==
                 Assessed(diagA, diagB, assessDataQuality(diagA, diagB, fullConfig.labels))
           IN  Diagnosed(getSampleDiagnostics(sampleA, fullConfig.outlierThreshold),
                         getSampleDiagnostics(sampleB, fullConfig.outlierThreshold))

\* ------------------------------------------------------------------------
\* runDiagnostics: the diagnostics of one sample with a recommendation
\* ------------------------------------------------------------------------

\* the recommendation downgraded to caution for outliers in a normal sample
determineRecommendationCautious(tooManyOutliers, isNormal) ==
  IF ~isNormal THEN "use-nonparametric"
  ELSE IF tooManyOutliers THEN "caution"
  ELSE "proceed"

determineRecommendation(tooManyOutliers, isNormal) ==
  IF tooManyOutliers THEN "use-nonparametric"
  ELSE IF ~isNormal THEN "use-nonparametric"
  ELSE "proceed"

\* the parts of the summary, in order; numbers as toFixed prints them
buildSummary(outliers, normality, recommendation) ==
  << IF outliers.count = 0 THEN <<"no-outliers">>
     ELSE IF outliers.tooMany THEN <<"too-many-outliers", outliers.count>>
     ELSE <<"outliers", [i \in 1..Len(outliers.values) |->
                           ToFixed(Fx(outliers.values[i]), 1)]>>,
     IF normality.isNormal THEN <<"normal">>
     ELSE <<"not-normal", ToFixed(normality.W, 3), ToFixed(normality.pValue, 4)>>,
     <<"recommendation", recommendation>> >>

runDiagnostics(samples, outlierThreshold) ==
  LET n == Len(samples)
      Diagnosed(outliers, normality, recommendation) ==
        [sample |-> [n |-> n,
                     mean |-> ssMean(FxSeq(samples)),
                     stdDev |-> ssSampleStandardDeviation(FxSeq(samples)),
                     min |-> Fx(SeqMin(samples)),
                     max |-> Fx(SeqMax(samples)),
                     outliers |-> outliers,
                     normality |-> normality],
         recommendation |-> recommendation,
         summary |-> buildSummary(outliers, normality, recommendation)]
      Tested(outliers, normality) ==
        Diagnosed(outliers, normality,
                  determineRecommendation(outliers.tooMany, normality.isNormal))
  IN  IF n < 3
      THEN [sample |-> [n |-> n,
                        mean |-> IF n > 0 THEN ssMean(FxSeq(samples)) ELSE 0,
                        stdDev |-> IF n > 1 THEN ssSampleStandardDeviation(FxSeq(samples))
                                   ELSE 0,
                        min |-> IF n > 0 THEN Fx(SeqMin(samples)) ELSE 0,
                        max |-> IF n > 0 THEN Fx(SeqMax(samples)) ELSE 0,
                        outliers |-> [indices |-> <<>>, values |-> <<>>,
                                      cleaned |-> samples, count |-> 0,
                                      tooMany |-> FALSE, zScores |-> <<>>],
                        normality |-> [W |-> SCALE, pValue |-> SCALE, isNormal |-> TRUE,
                                       interpretation |-> "insufficient-data", n |-> n]],
            recommendation |-> "caution",
            summary |-> <<"insufficient-data", n>>]
      ELSE Tested(detectOutliers(samples, outlierThreshold), shapiroWilkTest(samples))

\* ------------------------------------------------------------------------
\* Arrays. The heap of a call is the sequence of the arrays alive in it; an
\* array is referred to by its position. The caller's sampleA is array 1
\* and sampleB is array 2. Of the arrays a call creates, the heap keeps the
\* copies it sorts and the cleaned arrays it returns.
\* ------------------------------------------------------------------------
SampleARef == 1
SampleBRef == 2

\* a new array holding xs
Allocate(h, xs) == [heap |-> Append(h, xs), ref |-> Len(h) + 1]

\* the array r itself where the source makes a copy
SpreadAlias(h, r) == [heap |-> h, ref |-> r]

\* [...samples]: a new array with the elements of array r
Spread(h, r) == Allocate(h, h[r])

\* array.sort((a, b) => a - b): the array a.ref is sorted where it is
SortInPlace(a) == [a EXCEPT !.heap = [a.heap EXCEPT ![a.ref] = SortAsc(@)]]

\* combined.sort((a, b) => a.value - b.value)
SortTaggedInPlace(a) == [a EXCEPT !.heap = [a.heap EXCEPT ![a.ref] = SortTagged(@)]]

\* the early returns of detectOutliers: cleaned is [...samples]
DegenerateSample(samples) ==
  Len(samples) < 3 \/ ssSampleStandardDeviation(FxSeq(samples)) < TINY

\* the arrays of detectOutliers(samples, threshold), samples being array r;
\* ref is the cleaned array returned
detectOutliersArrays(h, r, threshold) ==
  IF DegenerateSample(h[r]) THEN Spread(h, r)
  ELSE Allocate(h, detectOutliers(h[r], threshold).cleaned)

\* the arrays of detectOutliersIQR: the sorted copy and the cleaned array
detectOutliersIQRArrays(h, r, multiplier) ==
  IF Len(h[r]) < MinQuartileSize THEN Spread(h, r)
  ELSE Allocate(SortInPlace(Spread(h, r)).heap, detectOutliersIQR(h[r], multiplier).cleaned)

\* the arrays of detectOutliersCombined: refs are the cleaned arrays of the
\* z-score result and of the IQR result
detectOutliersCombinedArrays(h, r, zThreshold, iqrMultiplier) ==
  LET Second(z, q) == [heap |-> q.heap, refs |-> <<z.ref, q.ref>>]
      First(z) == Second(z, detectOutliersIQRArrays(z.heap, r, iqrMultiplier))
  IN  First(detectOutliersArrays(h, r, zThreshold))

\* the heap after shapiroWilkTest(samples): the sorted copy
shapiroWilkTestArrays(h, r) ==
  IF Len(h[r]) < 3 \/ Len(h[r]) > 5000 THEN h
  ELSE SortInPlace(Spread(h, r)).heap

\* the heap after mannWhitneyU(sampleA, sampleB): the combined array, sorted
mannWhitneyUArrays(h, rA, rB) ==
  SortTaggedInPlace(
    Allocate(h, [i \in 1..Len(h[rA]) |-> [value |-> h[rA][i], group |-> "A"]]
                \o [i \in 1..Len(h[rB]) |-> [value |-> h[rB][i], group |-> "B"]])).heap

\* the arrays of getSampleDiagnostics; ref is the cleaned array of its
\* outliers
getSampleDiagnosticsArrays(h, r, outlierThreshold) ==
  IF Len(h[r]) = 0 THEN Allocate(h, <<>>)
  ELSE LET Tested(a) == [heap |-> shapiroWilkTestArrays(a.heap, r), ref |-> a.ref]
       IN  Tested(detectOutliersArrays(h, r, outlierThreshold))

\* the arrays of runDiagnostics; ref is the cleaned array of its outliers
runDiagnosticsArrays(h, r, outlierThreshold) ==
  IF Len(h[r]) < 3 THEN Spread(h, r)
  ELSE LET Tested(a) == [heap |-> shapiroWilkTestArrays(a.heap, r), ref |-> a.ref]
       IN  Tested(detectOutliersArrays(h, r, outlierThreshold))

\* the arrays of the diagnostics of both samples
DiagnosticsArrays(h, outlierThreshold) ==
  LET Second(a, b) == [heap |-> b.heap, refs |-> <<a.ref, b.ref>>]
      First(a) == Second(a, getSampleDiagnosticsArrays(a.heap, SampleBRef, outlierThreshold))
  IN  First(getSampleDiagnosticsArrays(h, SampleARef, outlierThreshold))

\* the i-th optional argument of a call, or its default
Arg(arguments, i, default) == IF Len(arguments) >= i THEN arguments[i] ELSE default

\* ------------------------------------------------------------------------
\* The state machine: one invocation of compareConditions, step by step, and
\* one invocation of welchTTest
\* ------------------------------------------------------------------------

\* bounds of the inputs
MaxVal == 1
MaxLen == 3

\* all sequences over 0..MaxVal of the lengths lo..hi
SeqsOfLen(lo, hi) == UNION {[1..n -> 0..MaxVal] : n \in lo..hi}

\* further first samples: no and one observation, short samples that pass the
\* normality test (the last with one value beyond 1.8 standard deviations),
\* and samples of ten observations (one outlier in ten is not "too many")
PickedSamples ==
  {<<>>, <<1>>, <<0, 1, 2>>, <<0, 1, 1, 2>>, <<0, 1, 1, 1, 2, 4>>,
   <<0, 2, 3, 3, 4, 4, 4, 5, 5, 6>>,
   <<1, 1, 2, 2, 2, 3, 3, 5, 10, 20>>}

\* the second sample of a comparison
SecondSamples ==
  {<<0, 1>>, <<1, 1, 1>>, <<0, 1, 2>>, <<0, 0, 1>>, <<3, 4, 5, 6>>,
   <<4, 6, 7, 7, 8, 8, 8, 9, 9, 11>>}

Alphas == {<<>>, <<100000>>}
EffectSizeMinimums == {<<>>, <<2 * SCALE>>}

Config(practicalThreshold, alpha, effectSizeMinimum, outlierThreshold) ==
  [practicalThreshold |-> practicalThreshold,
   alpha |-> alpha,
   effectSizeMinimum |-> effectSizeMinimum,
   outlierThreshold |-> outlierThreshold,
   labels |-> <<>>]

\* the caller's configurations: the defaults, each optional field set alone,
\* and two combinations
Configs ==
  {Config(SCALE, <<>>, <<>>, <<>>),
   Config(4 * SCALE, <<>>, <<>>, <<>>),
   Config(SCALE, <<100000>>, <<>>, <<>>),
   Config(SCALE, <<>>, <<2 * SCALE>>, <<>>),
   Config(SCALE, <<>>, <<>>, <<1800000>>),
   Config(SCALE, <<>>, <<>>, <<900000>>),
   Config(SCALE, <<100000>>, <<2 * SCALE>>, <<900000>>),
   Config(4 * SCALE, <<100000>>, <<2 * SCALE>>, <<1800000>>)}

VARIABLES
  pc,        \* where the invocation is: "start", "diagnosed", "tested", "done"
  op,        \* the entry point called
  sampleA,   \* the caller's arguments
  sampleB,
  config,
  diagA,     \* locals of compareConditions, <<>> until assigned
  diagB,
  quality,
  branch,
  called,    \* the significance tests run so far, in order
  result,    \* <<>> until the call returns, then <<the returned value>>
  args,      \* the optional arguments given to a core function, in order
  heap,      \* the arrays: the caller's two samples, then the call's own
  cleaned,   \* the references of the cleaned arrays the call returns
  earlier    \* <<>>, or <<the value an earlier, identical call returned>>

vars == <<pc, op, sampleA, sampleB, config, diagA, diagB, quality, branch, called, result, args, heap, cleaned, earlier>>

fullConfig == MergeConfig(config)

Init ==
  /\ pc = "start"
  /\ op = "compareConditions"
  /\ sampleA \in SeqsOfLen(2, MaxLen) \cup PickedSamples
  /\ sampleB \in SecondSamples
  /\ config \in Configs
  /\ diagA = <<>>
  /\ diagB = <<>>
  /\ quality = <<>>
  /\ branch = <<>>
  /\ called = <<>>
  /\ result = <<>>
  /\ args = <<>>
  /\ heap = <<sampleA, sampleB>>
  /\ cleaned = <<>>
  /\ earlier = <<>>

\* the input gate: fewer than 3 observations in either sample
InsufficientData ==
  /\ op = "compareConditions"
  /\ pc = "start"
  /\ (Len(sampleA) < MinSampleSize \/ Len(sampleB) < MinSampleSize)
  /\ result' = <<createInsufficientDataResult(sampleA, sampleB, fullConfig)>>
  /\ heap' = DiagnosticsArrays(heap, fullConfig.outlierThreshold).heap
  /\ cleaned' = DiagnosticsArrays(heap, fullConfig.outlierThreshold).refs
  /\ pc' = "done"
  /\ UNCHANGED <<op, sampleA, sampleB, config, diagA, diagB, quality, branch, called>>
  /\ UNCHANGED <<args, earlier>>

\* diagnostics of both samples and their merge
Diagnose ==
  /\ op = "compareConditions"
  /\ pc = "start"
  /\ ~(Len(sampleA) < MinSampleSize \/ Len(sampleB) < MinSampleSize)
  /\ diagA' = <<getSampleDiagnostics(sampleA, fullConfig.outlierThreshold)>>
  /\ diagB' = <<getSampleDiagnostics(sampleB, fullConfig.outlierThreshold)>>
  /\ quality' = <<assessDataQuality(diagA'[1], diagB'[1], fullConfig.labels)>>
  /\ heap' = DiagnosticsArrays(heap, fullConfig.outlierThreshold).heap
  /\ cleaned' = DiagnosticsArrays(heap, fullConfig.outlierThreshold).refs
  /\ pc' = "diagnosed"
  /\ UNCHANGED <<op, sampleA, sampleB, config, branch, called, result>>
  /\ UNCHANGED <<args, earlier>>

\* the Mann-Whitney branch taken on every recommendation but 'proceed'
RunMannWhitneyOnCaution ==
  /\ pc = "diagnosed"
  /\ quality[1].recommendation # "proceed"
  /\ branch' = <<MannWhitneyBranch(sampleA, sampleB, diagA[1], diagB[1], fullConfig)>>
  /\ called' = Append(called, "mannWhitneyU")
  /\ heap' = mannWhitneyUArrays(heap, SampleARef, SampleBRef)
  /\ pc' = "tested"
  /\ UNCHANGED <<op, sampleA, sampleB, config, diagA, diagB, quality, result>>
  /\ UNCHANGED <<args, cleaned, earlier>>

\* the non-parametric branch
RunMannWhitney ==
  /\ pc = "diagnosed"
  /\ quality[1].recommendation = "use-nonparametric"
  /\ branch' = <<MannWhitneyBranch(sampleA, sampleB, diagA[1], diagB[1], fullConfig)>>
  /\ called' = Append(called, "mannWhitneyU")
  /\ heap' = mannWhitneyUArrays(heap, SampleARef, SampleBRef)
  /\ pc' = "tested"
  /\ UNCHANGED <<op, sampleA, sampleB, config, diagA, diagB, quality, result>>
  /\ UNCHANGED <<args, cleaned, earlier>>

\* the Welch branch with alpha divided among the tests run so far
RunWelchAdjusted ==
  /\ pc = "diagnosed"
  /\ quality[1].recommendation # "use-nonparametric"
  /\ branch' = <<WelchBranch(sampleA, sampleB, diagA[1], diagB[1],
                             [fullConfig EXCEPT !.alpha = @ \div (Len(called) + 1)])>>
  /\ called' = Append(called, "welchTTest")
  /\ pc' = "tested"
  /\ UNCHANGED <<op, sampleA, sampleB, config, diagA, diagB, quality, result>>
  /\ UNCHANGED <<args, heap, cleaned, earlier>>

RunWelch ==
  /\ pc = "diagnosed"
  /\ quality[1].recommendation # "use-nonparametric"
  /\ branch' = <<WelchBranch(sampleA, sampleB, diagA[1], diagB[1], fullConfig)>>
  /\ called' = Append(called, "welchTTest")
  /\ pc' = "tested"
  /\ UNCHANGED <<op, sampleA, sampleB, config, diagA, diagB, quality, result>>
  /\ UNCHANGED <<args, heap, cleaned, earlier>>

\* the diagnostics object and the interpretation are built and returned
Return ==
  /\ pc = "tested"
  /\ result' = <<CompareResult(branch[1], diagA[1], diagB[1], quality[1], fullConfig)>>
  /\ pc' = "done"
  /\ UNCHANGED <<op, sampleA, sampleB, config, diagA, diagB, quality, branch, called>>
  /\ UNCHANGED <<args, heap, cleaned, earlier>>

Next == InsufficientData \/ Diagnose \/ RunMannWhitney \/ RunWelch \/ Return

Spec == Init /\ [][Next]_vars

\* samples of 4 to 9 values for detectOutliers, among them the ones with a
\* single value apart from the rest
ShortSamples == UNION {[1..n -> {0, 1}] : n \in 4..9}

\* arguments t and df of a direct call of tDistCDF
TValues == {-2000000, -1500000, -500000, 0, 500000, 1500000, 2000000}
DfValues == {Fx(1), 2500000, Fx(10), Fx(20), Fx(100), Fx(200), Fx(201), Fx(1000)}

\* welchTTest called directly
InitWelch ==
  /\ pc = "start"
  /\ op = "welchTTest"
  /\ sampleA \in SeqsOfLen(2, MaxLen)
  /\ sampleB \in SecondSamples
  /\ config \in {Config(SCALE, alpha, <<>>, <<>>) : alpha \in Alphas}
  /\ diagA = <<>>
  /\ diagB = <<>>
  /\ quality = <<>>
  /\ branch = <<>>
  /\ called = <<>>
  /\ result = <<>>
  /\ args = <<>>
  /\ heap = <<sampleA, sampleB>>
  /\ cleaned = <<>>
  /\ earlier = <<>>

CallWelch ==
  /\ op = "welchTTest"
  /\ pc = "start"
  /\ result' = <<welchTTest(sampleA, sampleB, fullConfig.alpha)>>
  /\ called' = Append(called, "welchTTest")
  /\ pc' = "done"
  /\ UNCHANGED <<op, sampleA, sampleB, config, diagA, diagB, quality, branch>>
  /\ UNCHANGED <<args, heap, cleaned, earlier>>

NextWelch == CallWelch

SpecWelch == InitWelch /\ [][NextWelch]_vars

\* ------------------------------------------------------------------------
\* The core functions called directly, and a call made a second time
\* ------------------------------------------------------------------------

\* the default alpha of mannWhitneyU
DefaultTestAlpha == 50000

\* samples beyond the exhaustive short ones: unsorted ones, one of exactly
\* four values, ten values of which one lies far out, a sample of twenty-one
\* values with one value beyond 2.5 standard deviations but within the
\* fences, and one with a value beyond both
PickedCoreSamples ==
  {<<2, 0, 1>>, <<0, 1, 2>>, <<5, 1, 3, 2>>, <<3, 3, 3, 3>>, <<0, 1, 1, 1, 2, 4>>,
   <<1, 2, 3, 4, 5, 6, 7, 8, 9, 20>>,
   <<4, 6, 7, 7, 8, 8, 8, 9, 9, 11>>,
   <<0, 0, 0, 0, 0, 0, 0, 0, 0, 0, 5, 5, 5, 5, 5, 5, 5, 5, 5, 5, 12>>,
   <<3, 4, 4, 5, 5, 5, 5, 5, 5, 5, 5, 5, 5, 5, 5, 5, 5, 6, 6, 7, 16>>,
   <<0, 0, 1, 1, 1, 1, 1, 3, 4, 5, 5, 6, 6, 6, 7, 7, 8, 8, 9, 12, 20>>,
   <<0, 0, 1, 2, 3, 5, 5, 5, 5, 5, 5, 7, 9, 9, 9, 10, 10, 16, 20, 20>>}

CoreSamples == SeqsOfLen(0, MaxLen) \cup PickedCoreSamples

\* a sample longer than shapiroWilkTest accepts
MaxShapiroWilkSize == 5000
LargeSample == [i \in 1..(MaxShapiroWilkSize + 1) |-> 0]

\* the samples of a direct Mann-Whitney call: none is empty
\* labels a caller gives in place of the default ones
CustomLabels == <<"Control", "Treatment">>

RankedFirstSamples == SeqsOfLen(1, MaxLen) \cup {<<1, 1, 6>>, <<1, 2, 2, 3, 3, 3, 4, 4, 5, 5>>}
RankedSecondSamples == {<<1>>, <<1, 2>>, <<0, 2, 2>>, <<6, 6, 7, 7, 8, 8, 9, 9, 10, 10>>}

InitCore ==
  /\ pc = "start"
  /\ \/ /\ op = "mannWhitneyU"
        /\ sampleA \in RankedFirstSamples
        /\ sampleB \in RankedSecondSamples
        /\ args \in {<<>>, <<100000>>}
        /\ config = Config(SCALE, <<>>, <<>>, <<>>)
     \/ /\ op = "shapiroWilkTest"
        /\ sampleA \in CoreSamples \cup {LargeSample}
        /\ sampleB = <<>>
        /\ args = <<>>
        /\ config = Config(SCALE, <<>>, <<>>, <<>>)
     \/ /\ op = "detectOutliers"
        /\ sampleA \in CoreSamples \cup ShortSamples
        /\ sampleB = <<>>
        /\ args \in {<<>>, <<1000000>>, <<1800000>>}
        /\ config = Config(SCALE, <<>>, <<>>, <<>>)
     \/ /\ op = "detectOutliersIQR"
        /\ sampleA \in CoreSamples
        /\ sampleB = <<>>
        /\ args \in {<<>>, <<500000>>}
        /\ config = Config(SCALE, <<>>, <<>>, <<>>)
     \/ /\ op = "detectOutliersCombined"
        /\ sampleA \in CoreSamples
        /\ sampleB = <<>>
        /\ args \in {<<>>, <<1000000>>, <<1800000, 500000>>}
        /\ config = Config(SCALE, <<>>, <<>>, <<>>)
     \/ /\ op = "runDiagnostics"
        /\ sampleA \in CoreSamples
        /\ sampleB = <<>>
        /\ args \in {<<>>, <<1000000>>}
        /\ config = Config(SCALE, <<>>, <<>>, <<>>)
     \/ /\ op = "tDistCDF"
        /\ sampleA = <<>>
        /\ sampleB = <<>>
        /\ args \in TValues \X DfValues
        /\ config = Config(SCALE, <<>>, <<>>, <<>>)
     \/ /\ op = "welchTTest"
        /\ sampleA \in {<<2, 0, 1>>, <<0, 0, 0>>}
        /\ sampleB \in {<<3, 4, 5, 6>>, <<1, 1, 1>>, <<0, 1, 3>>, <<0, 2, 3>>}
        /\ args = <<>>
        /\ config \in {Config(SCALE, alpha, <<>>, <<>>) : alpha \in Alphas}
     \/ /\ op = "compareConditions"
        /\ sampleA \in {<<1>>, <<2, 0, 1>>, <<0, 0, 1>>, <<1, 1, 2, 2, 2, 3, 3, 5, 10, 20>>}
        /\ sampleB \in {<<3, 4, 5, 6>>, <<1, 1, 1>>, <<2, 3, 4>>}
        /\ args = <<>>
        /\ config \in {Config(SCALE, <<>>, <<>>, <<>>), Config(SCALE, <<100000>>, <<>>, <<>>),
                        [Config(SCALE, <<100000>>, <<>>, <<>>)
                           EXCEPT !.labels = <<CustomLabels>>]}
  /\ diagA = <<>>
  /\ diagB = <<>>
  /\ quality = <<>>
  /\ branch = <<>>
  /\ called = <<>>
  /\ result = <<>>
  /\ heap = <<sampleA, sampleB>>
  /\ cleaned = <<>>
  /\ earlier = <<>>

CallMannWhitneyU ==
  /\ op = "mannWhitneyU"
  /\ pc = "start"
  /\ result' = <<mannWhitneyU(heap[SampleARef], heap[SampleBRef],
                              Arg(args, 1, DefaultTestAlpha))>>
  /\ called' = Append(called, "mannWhitneyU")
  /\ heap' = mannWhitneyUArrays(heap, SampleARef, SampleBRef)
  /\ pc' = "done"
  /\ UNCHANGED <<op, sampleA, sampleB, config, diagA, diagB, quality, branch>>
  /\ UNCHANGED <<args, cleaned, earlier>>

CallShapiroWilkTest ==
  /\ op = "shapiroWilkTest"
  /\ pc = "start"
  /\ result' = <<shapiroWilkTest(heap[SampleARef])>>
  /\ heap' = shapiroWilkTestArrays(heap, SampleARef)
  /\ pc' = "done"
  /\ UNCHANGED <<op, sampleA, sampleB, config, diagA, diagB, quality, branch, called>>
  /\ UNCHANGED <<args, cleaned, earlier>>

CallDetectOutliers ==
  /\ op = "detectOutliers"
  /\ pc = "start"
  /\ result' = <<detectOutliers(heap[SampleARef], Arg(args, 1, DefaultZThreshold))>>
  /\ heap' = detectOutliersArrays(heap, SampleARef, Arg(args, 1, DefaultZThreshold)).heap
  /\ cleaned' = <<detectOutliersArrays(heap, SampleARef, Arg(args, 1, DefaultZThreshold)).ref>>
  /\ pc' = "done"
  /\ UNCHANGED <<op, sampleA, sampleB, config, diagA, diagB, quality, branch, called>>
  /\ UNCHANGED <<args, earlier>>

CallDetectOutliersIQR ==
  /\ op = "detectOutliersIQR"
  /\ pc = "start"
  /\ result' = <<detectOutliersIQR(heap[SampleARef], Arg(args, 1, DefaultIqrMultiplier))>>
  /\ heap' = detectOutliersIQRArrays(heap, SampleARef, Arg(args, 1, DefaultIqrMultiplier)).heap
  /\ cleaned' = <<detectOutliersIQRArrays(heap, SampleARef,
                                          Arg(args, 1, DefaultIqrMultiplier)).ref>>
  /\ pc' = "done"
  /\ UNCHANGED <<op, sampleA, sampleB, config, diagA, diagB, quality, branch, called>>
  /\ UNCHANGED <<args, earlier>>

CallDetectOutliersCombined ==
  /\ op = "detectOutliersCombined"
  /\ pc = "start"
  /\ result' = <<detectOutliersCombined(heap[SampleARef], Arg(args, 1, DefaultZThreshold),
                                        Arg(args, 2, DefaultIqrMultiplier))>>
  /\ heap' = detectOutliersCombinedArrays(heap, SampleARef, Arg(args, 1, DefaultZThreshold),
                                          Arg(args, 2, DefaultIqrMultiplier)).heap
  /\ cleaned' = detectOutliersCombinedArrays(heap, SampleARef,
                                             Arg(args, 1, DefaultZThreshold),
                                             Arg(args, 2, DefaultIqrMultiplier)).refs
  /\ pc' = "done"
  /\ UNCHANGED <<op, sampleA, sampleB, config, diagA, diagB, quality, branch, called>>
  /\ UNCHANGED <<args, earlier>>

\* args holds config.outlierThreshold when the caller's config sets it
CallRunDiagnostics ==
  /\ op = "runDiagnostics"
  /\ pc = "start"
  /\ result' = <<runDiagnostics(heap[SampleARef], Arg(args, 1, DefaultOutlierThreshold))>>
  /\ heap' = runDiagnosticsArrays(heap, SampleARef, Arg(args, 1, DefaultOutlierThreshold)).heap
  /\ cleaned' = <<runDiagnosticsArrays(heap, SampleARef,
                                       Arg(args, 1, DefaultOutlierThreshold)).ref>>
  /\ pc' = "done"
  /\ UNCHANGED <<op, sampleA, sampleB, config, diagA, diagB, quality, branch, called>>
  /\ UNCHANGED <<args, earlier>>

\* args holds t and df
CallTDistCDF ==
  /\ op = "tDistCDF"
  /\ pc = "start"
  /\ result' = <<tDistCDF(args[1], args[2])>>
  /\ pc' = "done"
  /\ UNCHANGED <<op, sampleA, sampleB, config, diagA, diagB, quality, branch, called>>
  /\ UNCHANGED <<args, heap, cleaned, earlier>>

\* the caller makes the same call again with the same arrays: the locals
\* and the arrays of the first call are gone, its result is remembered
CallAgain ==
  /\ pc = "done"
  /\ earlier = <<>>
  /\ earlier' = result
  /\ result' = <<>>
  /\ diagA' = <<>>
  /\ diagB' = <<>>
  /\ quality' = <<>>
  /\ branch' = <<>>
  /\ cleaned' = <<>>
  /\ heap' = <<heap[SampleARef], heap[SampleBRef]>>
  /\ pc' = "start"
  /\ UNCHANGED <<op, sampleA, sampleB, config, called, args>>

NextCore ==
  \/ Next
  \/ CallWelch
  \/ CallMannWhitneyU
  \/ CallShapiroWilkTest
  \/ CallDetectOutliers
  \/ CallDetectOutliersIQR
  \/ CallDetectOutliersCombined
  \/ CallRunDiagnostics
  \/ CallTDistCDF
  \/ CallAgain

SpecCore == InitCore /\ [][NextCore]_vars

\* ------------------------------------------------------------------------
\* Properties of compareConditions
\* ------------------------------------------------------------------------

\* C1: with at least 3 values in each sample, the verdict is 'significant'
\* exactly when the test's significant flag is set (p < alpha), |effectSize|
\* is at least the gate-2 threshold and |meanA - meanB| is at least
\* practicalThreshold; otherwise it is 'not-significant'.
C1_ThreeGates ==
  (op = "compareConditions" /\ pc = "done"
   /\ Len(sampleA) >= 3 /\ Len(sampleB) >= 3) =>
    LET r == result[1]
        e == r.evidence
        flag == branch[1].result.significant
        threshold == IF e.testUsed = "mann-whitney-u" THEN 300000
                     ELSE r.config.effectSizeMinimum
        gate2 == IF IsFin(e.effectSize) THEN Abs(Val(e.effectSize)) >= threshold
                 ELSE ~IsNaN(e.effectSize)
        gate3 == Abs(e.meanA - e.meanB) >= r.config.practicalThreshold
    IN  /\ flag <=> XLess(e.pValue, r.config.alpha)
        /\ r.verdict = "significant" <=> (flag /\ gate2 /\ gate3)
        /\ r.verdict # "significant" => r.verdict = "not-significant"

\* a call in which gates 1 and 2 pass and gate 3 decides
C1_Witness ==
  /\ op = "compareConditions" /\ pc = "done"
  /\ Len(sampleA) >= 3 /\ Len(sampleB) >= 3
  /\ branch[1].result.significant
  /\ ~XLess(XAbs(result[1].evidence.effectSize), 2 * SCALE)
  /\ Abs(result[1].evidence.difference) < result[1].config.practicalThreshold
  /\ result[1].verdict = "not-significant"

\* C2: the verdict is 'insufficient-data' exactly when a sample has fewer
\* than 3 values; then the recommendation is 'caution', a warning names both
\* sample sizes, no test has run and the evidence is the placeholder
\* (pValue 1, testStatistic 0, effectSize 0, ci95 null).
C2_InsufficientData ==
  (op = "compareConditions" /\ pc = "done") =>
    LET r == result[1]
        w == r.diagnostics.warnings
    IN  /\ r.verdict = "insufficient-data" <=> (Len(sampleA) < 3 \/ Len(sampleB) < 3)
        /\ r.verdict = "insufficient-data" =>
             /\ r.recommendation = "caution"
             /\ Len(w) >= 1
             /\ \E i \in 1..Len(w) :
                  w[i].detail[1] = Len(sampleA) /\ w[i].detail[2] = Len(sampleB)
             /\ called = <<>>
             /\ r.evidence.pValue = Fin(SCALE)
             /\ r.evidence.testStatistic = Fin(0)
             /\ r.evidence.effectSize = Fin(0)
             /\ r.evidence.ci95 = <<>>

\* a call returned for a first sample of two values against a second of
\* three or more
C2_Witness ==
  /\ op = "compareConditions" /\ pc = "done"
  /\ Len(sampleA) = 2 /\ Len(sampleB) >= 3
  /\ result[1].verdict = "insufficient-data"

\* C3: gate 2 compares |effectSize| with config.effectSizeMinimum (0.5 when
\* not configured) after Welch's t-test and with 0.3 after Mann-Whitney U;
\* after Mann-Whitney U no other effectSizeMinimum gives another verdict.
C3_EffectThreshold ==
  (op = "compareConditions" /\ pc = "done"
   /\ Len(sampleA) >= 3 /\ Len(sampleB) >= 3) =>
    LET r == result[1]
        e == r.evidence
        passed == branch[1].result.significant
                  /\ Abs(e.meanA - e.meanB) >= r.config.practicalThreshold
        configured == IF config.effectSizeMinimum = <<>> THEN 500000
                      ELSE config.effectSizeMinimum[1]
    IN  /\ e.testUsed = "welch-t-test" =>
             (passed =>
                (r.verdict = "significant" <=> ~XLess(XAbs(e.effectSize), configured)))
        /\ e.testUsed = "mann-whitney-u" =>
             /\ passed =>
                  (r.verdict = "significant" <=> ~XLess(XAbs(e.effectSize), 300000))
             /\ \A m \in EffectSizeMinimums :
                  compareConditions(sampleA, sampleB,
                                    [config EXCEPT !.effectSizeMinimum = m]).verdict
                    = r.verdict

\* a Mann-Whitney call whose effect size passes 0.3 and lies below the
\* configured minimum
C3_Witness ==
  /\ op = "compareConditions" /\ pc = "done"
  /\ called = <<"mannWhitneyU">>
  /\ config.effectSizeMinimum # <<>>
  /\ XLess(XAbs(result[1].evidence.effectSize), config.effectSizeMinimum[1])
  /\ result[1].verdict = "significant"

\* C4: with at least 3 values in each sample exactly one test runs,
\* Mann-Whitney U exactly when the merged recommendation is
\* 'use-nonparametric' and Welch's t-test otherwise; testUsed names the test
\* that ran; ci95 is null and degreesOfFreedom is NaN exactly when
\* Mann-Whitney U ran.
C4_ExactlyOneTest ==
  (op = "compareConditions" /\ pc = "done"
   /\ Len(sampleA) >= 3 /\ Len(sampleB) >= 3) =>
    LET r == result[1]
        e == r.evidence
        ranMW == called[1] = "mannWhitneyU"
    IN  /\ Len(called) = 1
        /\ called[1] \in {"mannWhitneyU", "welchTTest"}
        /\ ranMW <=> r.recommendation = "use-nonparametric"
        /\ e.testUsed = (IF ranMW THEN "mann-whitney-u" ELSE "welch-t-test")
        /\ (e.ci95 = <<>> /\ IsNaN(e.degreesOfFreedom)) <=> ranMW
        /\ e.ci95 = <<>> <=> ranMW

\* a call that ran Welch's t-test under the recommendation 'caution'
C4_Witness ==
  /\ op = "compareConditions" /\ pc = "done"
  /\ called = <<"welchTTest">>
  /\ result[1].recommendation = "caution"
  /\ result[1].evidence.ci95 # <<>>

\* C5: with at least 3 values in each sample the merged recommendation is
\* 'use-nonparametric' exactly when a sample has too many outliers or fails
\* normality, 'caution' exactly when that is not so and a sample has an
\* outlier, and 'proceed' exactly when neither sample has an outlier and
\* both are normal; an outlier in the second sample does not take back a
\* 'use-nonparametric' set by the first.
C5_MergedRecommendation ==
  (op = "compareConditions" /\ pc = "done"
   /\ Len(sampleA) >= 3 /\ Len(sampleB) >= 3) =>
    LET r == result[1]
        dA == r.diagnostics.sampleA
        dB == r.diagnostics.sampleB
        nonparametric == \/ dA.outliers.tooMany \/ dB.outliers.tooMany
                         \/ ~dA.normality.isNormal \/ ~dB.normality.isNormal
        someOutlier == dA.outliers.count > 0 \/ dB.outliers.count > 0
    IN  /\ r.recommendation = "use-nonparametric" <=> nonparametric
        /\ r.recommendation = "caution" <=> (~nonparametric /\ someOutlier)
        /\ r.recommendation = "proceed" <=>
             /\ dA.outliers.count = 0 /\ dB.outliers.count = 0
             /\ dA.normality.isNormal /\ dB.normality.isNormal
        /\ (dA.outliers.tooMany /\ dB.outliers.count > 0) =>
             r.recommendation = "use-nonparametric"

\* two normal samples, the first with too many outliers, the second with
\* one that is not too many
C5_Witness ==
  /\ op = "compareConditions" /\ pc = "done"
  /\ Len(sampleA) >= 3 /\ Len(sampleB) >= 3
  /\ result[1].diagnostics.sampleA.outliers.tooMany
  /\ result[1].diagnostics.sampleB.outliers.count > 0
  /\ ~result[1].diagnostics.sampleB.outliers.tooMany
  /\ result[1].diagnostics.sampleA.normality.isNormal
  /\ result[1].diagnostics.sampleB.normality.isNormal
  /\ result[1].recommendation = "use-nonparametric"

C7_WarningOrder ==
  (op = "compareConditions" /\ pc = "done"
   /\ Len(sampleA) >= 3 /\ Len(sampleB) >= 3) =>
    LET r == result[1]
        dA == r.diagnostics.sampleA
        dB == r.diagnostics.sampleB
        w == r.diagnostics.warnings
        got == [i \in 1..Len(w) |->
                  <<IF w[i].kind = "normality" THEN "normality" ELSE "outliers",
                    w[i].label>>]
        One(present, about, label) == IF present THEN <<<<about, label>>>> ELSE <<>>
    IN  /\ \A i \in 1..Len(w) :
             w[i].kind \in {"outliers", "too-many-outliers", "normality"}
        /\ got = One(dA.outliers.count > 0, "outliers", r.config.labels[1])
                 \o One(dB.outliers.count > 0, "outliers", r.config.labels[2])
                 \o One(~dA.normality.isNormal, "normality", r.config.labels[1])
                 \o One(~dB.normality.isNormal, "normality", r.config.labels[2])

\* a call in which all four conditions contribute a warning
C7_Witness ==
  /\ op = "compareConditions" /\ pc = "done"
  /\ Len(sampleA) >= 3 /\ Len(sampleB) >= 3
  /\ Len(result[1].diagnostics.warnings) = 4

\* C8: with at least 3 values in each sample overallQuality is 'poor' for
\* the recommendation 'use-nonparametric', 'acceptable' for 'caution' and
\* 'good' for 'proceed'.
C8_OverallQuality ==
  (op = "compareConditions" /\ pc = "done"
   /\ Len(sampleA) >= 3 /\ Len(sampleB) >= 3) =>
    LET r == result[1]
        q == r.diagnostics.overallQuality
    IN  /\ r.recommendation \in {"use-nonparametric", "caution", "proceed"}
        /\ r.recommendation = "use-nonparametric" => q = "poor"
        /\ r.recommendation = "caution" => q = "acceptable"
        /\ r.recommendation = "proceed" => q = "good"

\* a call with an outlier that is not too many, on normal samples
C8_Witness ==
  /\ op = "compareConditions" /\ pc = "done"
  /\ Len(sampleA) >= 3 /\ Len(sampleB) >= 3
  /\ result[1].recommendation = "caution"
  /\ result[1].diagnostics.overallQuality = "acceptable"

\* C9: for two samples of at least 3 values, each with all values equal,
\* compareConditions returns a p-value, a test statistic, degrees of freedom
\* and an effect size that are defined numbers (not NaN, not an infinity).
C9_ZeroVarianceDefined ==
  (op = "compareConditions" /\ pc = "done"
   /\ Len(sampleA) >= 3 /\ Len(sampleB) >= 3
   /\ (\A i \in 1..Len(sampleA) : sampleA[i] = sampleA[1])
   /\ (\A j \in 1..Len(sampleB) : sampleB[j] = sampleB[1])) =>
    LET e == result[1].evidence
    IN  /\ IsFin(e.pValue)
        /\ IsFin(e.testStatistic)
        /\ IsFin(e.degreesOfFreedom)
        /\ IsFin(e.effectSize)

\* ------------------------------------------------------------------------
\* Properties of welchTTest
\* ------------------------------------------------------------------------

\* C10: for two samples of at least 2 values each, the meanDiff welchTTest
\* returns lies within the interval it returns:
\* ci95[0] <= meanDiff <= ci95[1].
C10_MeanDiffWithinCI ==
  (op = "welchTTest" /\ pc = "done"
   /\ Len(sampleA) >= 2 /\ Len(sampleB) >= 2) =>
    LET r == result[1]
    IN  /\ IsFin(r.ci95[1]) /\ Val(r.ci95[1]) <= r.meanDiff
        /\ IsFin(r.ci95[2]) /\ r.meanDiff <= Val(r.ci95[2])

\* ------------------------------------------------------------------------
\* Properties of mannWhitneyU
\* ------------------------------------------------------------------------

\* some value occurs twice in s
HasDuplicate(s) == \E i, j \in 1..Len(s) : i # j /\ s[i] = s[j]

\* C11: for two non-empty samples in which some value is duplicated, within
\* or across the samples, mannWhitneyU returns a p-value strictly between 0
\* and 1.
C11_TiedPValueInside ==
  (op = "mannWhitneyU" /\ pc = "done"
   /\ sampleA # <<>> /\ sampleB # <<>> /\ HasDuplicate(sampleA \o sampleB)) =>
    (0 < result[1].pValue /\ result[1].pValue < SCALE)

\* ------------------------------------------------------------------------
\* Properties of repeated calls and of the caller's arrays
\* ------------------------------------------------------------------------

C13_InputsUntouched ==
  /\ heap[SampleARef] = sampleA
  /\ heap[SampleBRef] = sampleB
  /\ \A k \in 1..Len(cleaned) : cleaned[k] \notin {SampleARef, SampleBRef}
  /\ (pc = "done" /\ op \in {"detectOutliers", "detectOutliersIQR"}) =>
       heap[cleaned[1]] = result[1].cleaned
  /\ (pc = "done" /\ op = "detectOutliersCombined") =>
       /\ heap[cleaned[1]] = result[1].zScore.cleaned
       /\ heap[cleaned[2]] = result[1].iqr.cleaned

\* detectOutliersIQR has returned for an unsorted sample: the sorted copy it
\* made differs from the sample, and nothing was flagged, so that the
\* cleaned array has the elements of the input
C13_Witness ==
  /\ op = "detectOutliersIQR"
  /\ pc = "done"
  /\ Len(sampleA) >= MinQuartileSize
  /\ SortAsc(sampleA) # sampleA
  /\ \E r \in 1..Len(heap) : heap[r] = SortAsc(sampleA)
  /\ cleaned # <<>>
  /\ heap[cleaned[1]] = sampleA

\* ------------------------------------------------------------------------
\* Properties of shapiroWilkTest
\* ------------------------------------------------------------------------

\* the values of the sample are all the same
AllIdentical(s) == \A i \in 1..Len(s) : s[i] = s[1]

C16_DegenerateNoOutliers ==
  (op = "detectOutliers" /\ pc = "done"
   /\ (Len(sampleA) < 3 \/ AllIdentical(sampleA))) =>
    /\ result[1].indices = <<>>
    /\ result[1].values = <<>>
    /\ result[1].count = 0
    /\ result[1].tooMany = FALSE
    /\ result[1].cleaned = sampleA
    /\ Len(result[1].zScores) = Len(sampleA)
    /\ \A i \in 1..Len(sampleA) : result[1].zScores[i] = 0

\* detectOutliers has returned for two different values
C16_Witness ==
  /\ op = "detectOutliers"
  /\ pc = "done"
  /\ Len(sampleA) = 2
  /\ sampleA[1] # sampleA[2]
  /\ result[1].zScores = <<0, 0>>
  /\ result[1].cleaned = sampleA

\* the 1-based positions of s that the 0-based indices leave out
Unflagged(s, indices) ==
  {i \in 1..Len(s) : \A k \in 1..Len(indices) : indices[k] # i - 1}

\* the k-th smallest member of a set of positions
NthOf(positions, k) ==
  CHOOSE i \in positions : Cardinality({j \in positions : j < i}) = k - 1

\* r.indices, r.values and r.cleaned partition the sample s
Partitions(r, s) ==
  /\ \A k \in 1..Len(r.indices) : r.indices[k] \in 0..(Len(s) - 1)
  /\ \A k \in 1..(Len(r.indices) - 1) : r.indices[k] < r.indices[k + 1]
  /\ Len(r.values) = Len(r.indices)
  /\ \A k \in 1..Len(r.indices) : r.values[k] = s[r.indices[k] + 1]
  /\ Len(r.cleaned) = Cardinality(Unflagged(s, r.indices))
  /\ \A k \in 1..Len(r.cleaned) :
       r.cleaned[k] = s[NthOf(Unflagged(s, r.indices), k)]
  /\ r.count = Len(r.indices)
  /\ r.count + Len(r.cleaned) = Len(s)

\* C17: the results of detectOutliers and detectOutliersIQR partition the
\* input: indices are the flagged positions in strictly increasing order,
\* values are the elements at those positions, cleaned is the other
\* elements in their original order, count = |indices| = |values| and
\* count + |cleaned| = n; detectOutliers flags a position exactly when its
\* |z| is strictly above the threshold.
C17_OutliersPartition ==
  /\ (pc = "done" /\ op \in {"detectOutliers", "detectOutliersIQR"}) =>
       Partitions(result[1], sampleA)
  /\ (pc = "done" /\ op = "detectOutliers") =>
       \A i \in 1..Len(sampleA) :
         (i \notin Unflagged(sampleA, result[1].indices))
           <=> (Abs(result[1].zScores[i]) > Arg(args, 1, DefaultZThreshold))

\* detectOutliers has flagged the last of ten values and kept the first
\* nine, among them one below the mean by more than one standard deviation
C17_Witness ==
  /\ op = "detectOutliers"
  /\ pc = "done"
  /\ Len(sampleA) = 10
  /\ result[1].indices = <<9>>
  /\ result[1].values = <<sampleA[10]>>
  /\ result[1].cleaned = SubSeq(sampleA, 1, 9)
  /\ result[1].zScores[1] < -SCALE

\* C18: in the results of detectOutliers and detectOutliersIQR tooMany is
\* true exactly when count / n > 0.10, strictly: when exactly 10% of the
\* values are flagged tooMany is false, and when count > 0.1 * n it is true.
C18_TooManyStrict ==
  (pc = "done" /\ op \in {"detectOutliers", "detectOutliersIQR"}) =>
    (result[1].tooMany <=> (10 * result[1].count > Len(sampleA)))

\* detectOutliersIQR has flagged exactly one of ten values
C18_Witness ==
  /\ op = "detectOutliersIQR"
  /\ pc = "done"
  /\ Len(sampleA) = 10
  /\ result[1].count = 1
  /\ result[1].tooMany = FALSE

\* outliers are the values flagged by the recommended method, and a reason
\* is given
RecommendedOutliers(r) ==
  /\ r.recommended \in {"iqr", "z-score"}
  /\ r.reason # ""
  /\ r.recommended = "iqr" => r.outliers = r.iqr.values
  /\ r.recommended = "z-score" => r.outliers = r.zScore.values

\* C19 as stated: detectOutliersCombined recommends 'iqr' exactly when (a)
\* the z-score method flags none and the IQR method flags at least one, or
\* (b) the z-score count is more than double the IQR count, or (c) n < 20,
\* and 'z-score' otherwise; reason is not empty and outliers are the values
\* flagged by the recommended method.
C19_AsStated ==
  (op = "detectOutliersCombined" /\ pc = "done") =>
    /\ RecommendedOutliers(result[1])
    /\ (result[1].recommended = "iqr") <=>
         \/ result[1].zScore.count = 0 /\ result[1].iqr.count > 0
         \/ result[1].zScore.count > 2 * result[1].iqr.count
         \/ Len(sampleA) < 20

\* C19: detectOutliersCombined recommends 'iqr' exactly when (a) the z-score
\* method flags none and the IQR method flags at least one, or (b) the IQR
\* method flags at least one and the z-score count is more than double the
\* IQR count, or (c) n < 20, and 'z-score' otherwise; reason is not empty
\* and outliers are the values flagged by the recommended method.
C19_Recommendation ==
  (op = "detectOutliersCombined" /\ pc = "done") =>
    /\ RecommendedOutliers(result[1])
    /\ (result[1].recommended = "iqr") <=>
         \/ result[1].zScore.count = 0 /\ result[1].iqr.count > 0
         \/ result[1].iqr.count > 0
              /\ result[1].zScore.count > 2 * result[1].iqr.count
         \/ Len(sampleA) < 20

\* detectOutliersCombined has recommended 'iqr' for more than 20 values
\* of which the z-score method flags four and the IQR method one
C19_Witness ==
  /\ op = "detectOutliersCombined"
  /\ pc = "done"
  /\ Len(sampleA) > 20
  /\ result[1].zScore.count = 4
  /\ result[1].iqr.count = 1
  /\ result[1].recommended = "iqr"
  /\ result[1].outliers = result[1].iqr.values

\* C20: detectOutliersIQR on fewer than 4 values returns no outliers,
\* lowerFence = -infinity, upperFence = +infinity and cleaned equal to the
\* input; on 4 values or more IQR = Q3 - Q1, lowerFence = Q1 - k * IQR,
\* upperFence = Q3 + k * IQR for the multiplier k (1.5 by default), and the
\* values flagged are exactly those strictly below lowerFence or strictly
\* above upperFence.
C20_IqrFences ==
  (op = "detectOutliersIQR" /\ pc = "done") =>
    /\ Len(sampleA) < 4 =>
         /\ result[1].count = 0
         /\ result[1].indices = <<>>
         /\ result[1].values = <<>>
         /\ result[1].lowerFence = NegInf
         /\ result[1].upperFence = PosInf
         /\ result[1].cleaned = sampleA
    /\ Len(sampleA) >= 4 =>
         /\ result[1].IQR = result[1].Q3 - result[1].Q1
         /\ result[1].lowerFence =
              Fin(result[1].Q1 - Mul(Arg(args, 1, 1500000), result[1].IQR))
         /\ result[1].upperFence =
              Fin(result[1].Q3 + Mul(Arg(args, 1, 1500000), result[1].IQR))
         /\ \A i \in 1..Len(sampleA) :
              (i \notin Unflagged(sampleA, result[1].indices))
                <=> \/ Fx(sampleA[i]) < Val(result[1].lowerFence)
                    \/ Fx(sampleA[i]) > Val(result[1].upperFence)

\* detectOutliersIQR has flagged a value beyond finite fences that are
\* apart, and has kept the others
C20_Witness ==
  /\ op = "detectOutliersIQR"
  /\ pc = "done"
  /\ Len(sampleA) >= 4
  /\ result[1].IQR > 0
  /\ IsFin(result[1].lowerFence)
  /\ IsFin(result[1].upperFence)
  /\ result[1].count > 0
  /\ result[1].cleaned # <<>>

\* ------------------------------------------------------------------------
\* Properties of the rank statistics
\* ------------------------------------------------------------------------

\* the number of members of the sequence s below v, and up to v
CountBelow(s, v) == Cardinality({i \in 1..Len(s) : s[i] < v})
CountUpTo(s, v) == Cardinality({i \in 1..Len(s) : s[i] <= v})

\* the mean of the rank positions CountBelow + 1 .. CountUpTo that the
\* values equal to v occupy among the ascending values of s
MeanRank(s, v) == Fx(CountBelow(s, v) + 1 + CountUpTo(s, v)) \div 2

\* the sum of the mean ranks, among the values of all, of the values of s
MeanRankSum(s, all) == SumSeq([i \in 1..Len(s) |-> MeanRank(all, s[i])])

\* n (n + 1) / 2
Triangle(n) == Fx(n * (n + 1)) \div 2

\* C21: mannWhitneyU ranks the combined ascending values 1..N, every group
\* of equal values receiving the mean of the rank positions it occupies,
\* so that the ranks sum to N (N + 1) / 2; with the rank sums R1 and R2 of
\* the two samples, U1 = R1 - n1 (n1 + 1) / 2, U2 = R2 - n2 (n2 + 1) / 2,
\* U1 + U2 = n1 * n2, and the U returned is the smaller of U1 and U2.
C21_TieAveragedRanks ==
  (op = "mannWhitneyU" /\ pc = "done") =>
    /\ assignRanks(SortAsc(sampleA \o sampleB)) =
         [i \in 1..Len(sampleA \o sampleB) |->
            MeanRank(sampleA \o sampleB, SortAsc(sampleA \o sampleB)[i])]
    /\ SumSeq(assignRanks(SortAsc(sampleA \o sampleB))) = Triangle(Len(sampleA \o sampleB))
    /\ (MeanRankSum(sampleA, sampleA \o sampleB) - Triangle(Len(sampleA)))
         + (MeanRankSum(sampleB, sampleA \o sampleB) - Triangle(Len(sampleB)))
         = Fx(Len(sampleA) * Len(sampleB))
    /\ result[1].U =
         Min2(MeanRankSum(sampleA, sampleA \o sampleB) - Triangle(Len(sampleA)),
              MeanRankSum(sampleB, sampleA \o sampleB) - Triangle(Len(sampleB)))

\* mannWhitneyU has returned a U that is not whole, for samples that share
\* a value
C21_Witness ==
  /\ op = "mannWhitneyU"
  /\ pc = "done"
  /\ \E i \in 1..Len(sampleA) : \E j \in 1..Len(sampleB) : sampleA[i] = sampleB[j]
  /\ result[1].U % SCALE # 0
  /\ result[1].U > 0

\* ------------------------------------------------------------------------
\* Properties of runDiagnostics
\* ------------------------------------------------------------------------

\* C22: runDiagnostics returns 'caution' for every sample of fewer than 3
\* values, with a record of no outliers, W = 1, pValue = 1 and isNormal;
\* for 3 values or more it returns 'use-nonparametric' exactly when the
\* outliers of the sample are tooMany or the sample is not normal, and
\* 'proceed' otherwise, never 'caution'.
C22_DiagnosticsRecommendation ==
  (op = "runDiagnostics" /\ pc = "done") =>
    /\ Len(sampleA) < 3 =>
         /\ result[1].recommendation = "caution"
         /\ result[1].sample.outliers.count = 0
         /\ result[1].sample.outliers.indices = <<>>
         /\ result[1].sample.outliers.values = <<>>
         /\ result[1].sample.outliers.tooMany = FALSE
         /\ result[1].sample.normality.W = SCALE
         /\ result[1].sample.normality.pValue = SCALE
         /\ result[1].sample.normality.isNormal
    /\ Len(sampleA) >= 3 =>
         /\ result[1].recommendation \in {"use-nonparametric", "proceed"}
         /\ (result[1].recommendation = "use-nonparametric") <=>
              \/ 10 * result[1].sample.outliers.count > Len(sampleA)
              \/ result[1].sample.normality.pValue < 50000
         /\ result[1].sample.outliers.tooMany <=>
              (10 * result[1].sample.outliers.count > Len(sampleA))
         /\ result[1].sample.normality.isNormal <=>
              (result[1].sample.normality.pValue >= 50000)

\* runDiagnostics has recommended the non-parametric test for a normal
\* sample with more than 10% of outliers
C22_Witness ==
  /\ op = "runDiagnostics"
  /\ pc = "done"
  /\ Len(sampleA) >= 3
  /\ result[1].sample.outliers.tooMany
  /\ result[1].sample.normality.isNormal
  /\ result[1].recommendation = "use-nonparametric"

\* ------------------------------------------------------------------------
\* Properties of the effect-size labels
\* ------------------------------------------------------------------------

\* the label of a magnitude on a scale of three thresholds
LabelOnScale(magnitude, small, medium, large) ==
  CASE magnitude < small -> "negligible"
    [] magnitude >= small /\ magnitude < medium -> "small"
    [] magnitude >= medium /\ magnitude < large -> "medium"
    [] OTHER -> "large"

\* the label of Cohen's d, which may be infinite or NaN: these are in none
\* of the three ranges
CohenLabel(d) ==
  IF IsFin(d) THEN LabelOnScale(Abs(Val(d)), 200000, 500000, 800000) ELSE "large"

\* C23: the effect-size labels depend on the absolute value only. The label
\* of Cohen's d in a result of welchTTest is negligible for |d| < 0.2,
\* small for 0.2 <= |d| < 0.5, medium for 0.5 <= |d| < 0.8 and large
\* otherwise; the label in a result of mannWhitneyU is negligible for
\* |r| < 0.1, small for 0.1 <= |r| < 0.3, medium for 0.3 <= |r| < 0.5 and
\* large otherwise. The label of a result is the label of its effectSize.
C23_EffectSizeLabels ==
  /\ (op = "welchTTest" /\ pc = "done") =>
       /\ result[1].effectSizeLabel = CohenLabel(result[1].effectSize)
       /\ getEffectSizeLabel(XLin(0, -1, result[1].effectSize)) = result[1].effectSizeLabel
  /\ (op = "mannWhitneyU" /\ pc = "done") =>
       /\ result[1].effectSizeLabel =
            LabelOnScale(Abs(result[1].effectSize), 100000, 300000, 500000)
       /\ getEffectSizeLabelRankBiserial(-result[1].effectSize) = result[1].effectSizeLabel
  /\ (op = "compareConditions" /\ pc = "done" /\ called = <<"welchTTest">>) =>
       result[1].evidence.effectSizeLabel = CohenLabel(result[1].evidence.effectSize)
  /\ (op = "compareConditions" /\ pc = "done" /\ called = <<"mannWhitneyU">>) =>
       result[1].evidence.effectSizeLabel =
         LabelOnScale(Abs(Val(result[1].evidence.effectSize)), 100000, 300000, 500000)

\* mannWhitneyU has returned an effect size between 0.3 and 0.5, which is
\* medium on its scale and would be small on the scale of Cohen's d
C23_Witness ==
  /\ op = "mannWhitneyU"
  /\ pc = "done"
  /\ result[1].effectSize >= 300000
  /\ result[1].effectSize < 500000
  /\ result[1].effectSizeLabel = "medium"

\* ------------------------------------------------------------------------
\* Properties of the configuration
\* ------------------------------------------------------------------------

\* the values config.labels can take: absent, two labels, the same label
\* twice
LabelChoices == {<<>>, <<CustomLabels>>, <<<<"Run", "Run">>>>}

\* what a result holds besides rendered text
Unrendered(r) ==
  [verdict |-> r.verdict,
   recommendation |-> r.recommendation,
   overallQuality |-> r.diagnostics.overallQuality,
   warnings |-> Len(r.diagnostics.warnings),
   evidence |-> r.evidence]

\* C24: the labels of the configuration affect rendered text only: for two
\* configurations that differ in labels alone compareConditions returns the
\* same verdict, recommendation, overallQuality, number of warnings,
\* testUsed and numeric evidence.
C24_LabelsOnlyRendered ==
  (op = "compareConditions" /\ pc = "done") =>
    \A labels \in LabelChoices :
      Unrendered(compareConditions(sampleA, sampleB, [config EXCEPT !.labels = labels]))
        = Unrendered(result[1])

\* compareConditions has returned a significant difference under labels of
\* the caller and an alpha of 0.10, with a p-value above 0.05
C24_Witness ==
  /\ op = "compareConditions"
  /\ pc = "done"
  /\ config.labels = <<CustomLabels>>
  /\ config.alpha = <<100000>>
  /\ result[1].verdict = "significant"
  /\ IsFin(result[1].evidence.pValue)
  /\ Val(result[1].evidence.pValue) > 50000
  /\ result[1].config.labels = CustomLabels

\* ------------------------------------------------------------------------
\* Relations between calls of detectOutliers
\* ------------------------------------------------------------------------

\* the thresholds compared
Thresholds == {1000000, 1800000, 2500000}

\* the members of a sequence
Members(s) == {s[i] : i \in 1..Len(s)}

\* C25: detectOutliers is monotone in its threshold: for thresholds
\* t1 <= t2 every index flagged with t2 is flagged with t1, and the count
\* with t1 is at least the count with t2.
C25_ThresholdMonotone ==
  (op = "detectOutliers" /\ pc = "done") =>
    \A t \in Thresholds :
      /\ t <= Arg(args, 1, 2500000) =>
           /\ Members(result[1].indices) \subseteq Members(detectOutliers(sampleA, t).indices)
           /\ detectOutliers(sampleA, t).count >= result[1].count
      /\ t >= Arg(args, 1, 2500000) =>
           /\ Members(detectOutliers(sampleA, t).indices) \subseteq Members(result[1].indices)
           /\ detectOutliers(sampleA, t).count <= result[1].count

\* detectOutliers has flagged a value with the threshold 1.8, and flags
\* more values with the threshold 1.0 and none with 2.5
C25_Witness ==
  /\ op = "detectOutliers"
  /\ pc = "done"
  /\ args = <<1800000>>
  /\ result[1].count > 0
  /\ detectOutliers(sampleA, 1000000).count > result[1].count
  /\ detectOutliers(sampleA, 2500000).count = 0

\* ------------------------------------------------------------------------
\* The Welch-Satterthwaite degrees of freedom
\* ------------------------------------------------------------------------

\* the rounding of the squares and quotients that make up df
DfTolerance == SCALE \div 1000

VarianceOf(sample) == ssSampleVariance(FxSeq(sample))

SmallerDf == IF Len(sampleA) < Len(sampleB) THEN Len(sampleA) - 1 ELSE Len(sampleB) - 1

WelchDone ==
  /\ op = "welchTTest" /\ pc = "done"
  /\ Len(sampleA) >= 2 /\ Len(sampleB) >= 2
  /\ (VarianceOf(sampleA) # 0 \/ VarianceOf(sampleB) # 0)

TailBeta(t, df) == incompleteBeta(Div(df, df + Mul(t, t)), df \div 2, SCALE \div 2)

\* C27: tDistCDF(t, df) and tDistCDF(-t, df) add up to 1 within the resolution
\* of the arithmetic, tDistCDF(0, df) is 0.5, and for df <= 200 the smaller of
\* the two is half the incompleteBeta value of t squared and the larger is 1
\* minus that half
C27_TDistSymmetric ==
  (op = "tDistCDF" /\ pc = "done") =>
    /\ Abs(result[1] + tDistCDF(-args[1], args[2]) - SCALE) <= 1
    /\ args[1] = 0 => result[1] = SCALE \div 2
    /\ args[2] <= Fx(200) =>
         /\ TailBeta(args[1], args[2]) = TailBeta(-args[1], args[2])
         /\ Min2(result[1], tDistCDF(-args[1], args[2])) = TailBeta(args[1], args[2]) \div 2
         /\ Max2(result[1], tDistCDF(-args[1], args[2]))
              = SCALE - TailBeta(args[1], args[2]) \div 2

\* tDistCDF has returned a lower tail for a negative t and df <= 200
C27_Witness ==
  /\ op = "tDistCDF" /\ pc = "done"
  /\ args[1] < 0 /\ args[2] <= Fx(200)
  /\ result[1] > 0 /\ result[1] < SCALE \div 2

\* ------------------------------------------------------------------------
\* Quality label, recommendation and warnings of a result
\* ------------------------------------------------------------------------

\* C28: in every result of compareConditions, the insufficient-data result
\* included, overallQuality is 'good' exactly when recommendation is 'proceed'
\* and exactly when there is no warning, 'acceptable' exactly when
\* recommendation is 'caution', and 'poor' exactly when recommendation is
\* 'use-nonparametric'
C28_QualityAgrees ==
  (op = "compareConditions" /\ pc = "done") =>
    /\ (result[1].diagnostics.overallQuality = "good") <=> (result[1].recommendation = "proceed")
    /\ (result[1].recommendation = "proceed") <=> (result[1].diagnostics.warnings = <<>>)
    /\ (result[1].diagnostics.overallQuality = "acceptable")
         <=> (result[1].recommendation = "caution")
    /\ (result[1].diagnostics.overallQuality = "poor")
         <=> (result[1].recommendation = "use-nonparametric")

\* ------------------------------------------------------------------------
\* Range and symmetry of mannWhitneyU
\* ------------------------------------------------------------------------

\* the call with the two samples exchanged
Swapped == mannWhitneyU(sampleB, sampleA, Arg(args, 1, DefaultTestAlpha))

\* C29: for two non-empty samples mannWhitneyU returns 0 <= U <= n1 * n2 / 2
\* and 0 <= effectSize <= 1 with effectSize = 1 - 2U / (n1 * n2), and the call
\* with the samples exchanged returns the same U, pValue, effectSize and
\* significant
C29_URangeAndSwap ==
  (op = "mannWhitneyU" /\ pc = "done" /\ sampleA # <<>> /\ sampleB # <<>>) =>
    /\ 0 <= result[1].U
    /\ 2 * result[1].U <= Fx(Len(sampleA) * Len(sampleB))
    /\ result[1].effectSize
         = SCALE - Div(2 * result[1].U, Fx(Len(sampleA) * Len(sampleB)))
    /\ 0 <= result[1].effectSize
    /\ result[1].effectSize <= SCALE
    /\ Swapped.U = result[1].U
    /\ Swapped.pValue = result[1].pValue
    /\ Swapped.effectSize = result[1].effectSize
    /\ Swapped.significant = result[1].significant

\* mannWhitneyU has returned for a first sample that has the larger values
C29_Witness ==
  /\ op = "mannWhitneyU" /\ pc = "done"
  /\ \A i \in 1..Len(sampleA) : \A j \in 1..Len(sampleB) : sampleA[i] >= sampleB[j]
  /\ \E i \in 1..Len(sampleA) : \E j \in 1..Len(sampleB) : sampleA[i] > sampleB[j]
  /\ result[1].effectSize > 0

\* ------------------------------------------------------------------------
\* The default z-score detector on small samples
\* ------------------------------------------------------------------------

\* (n - 1) / sqrt(n), the largest |z| a value of a sample of n can have
LargestZ(n) == Div(Fx(n - 1), Sqrt(Fx(n)))

====
